---------------------------- MODULE Spec2Model ----------------------------
(***************************************************************************)
(* A model of the code-review agent CLI: the command-line entry (run),     *)
(* runAgent, the recursive fix loop (runRecursive), one pass               *)
(* (executeQuery) and the helpers they call (collectEdits,                 *)
(* extractLastText, getStatusFromOutput, wrapQueryError, handleError).     *)
(*                                                                         *)
(* Representation of JavaScript values                                     *)
(*   - a text whose characters matter (agent output, raw option values)    *)
(*     is a sequence of characters; a character is a one-character string, *)
(*     a control character is named by its ASCII name ("ESC", "NUL",       *)
(*     "BEL", "VT", "FF", "DEL") and the no-break space is "NBSP";         *)
(*   - a prompt is a sequence of such characters and of opaque chunks of   *)
(*     text (a chunk holds no control character and neither starts nor     *)
(*     ends with white space);                                             *)
(*   - an error message is the sequence of its words;                      *)
(*   - a number is a record [kind, val]: "int" is val, "frac" is           *)
(*     val + 1/2, "nan" is NaN and "undefined" is the missing option.      *)
(***************************************************************************)
EXTENDS Integers, Sequences, FiniteSets, TLC

\* ------------------------------------------------------------------ bounds

\* The longest event stream the engine emits in one pass of the loop model.
MaxEvents == 2

\* ------------------------------------------------------- program constants

DEFAULT_MAX_PASSES == 5
MAX_PASSES_LIMIT == 100
MAX_PROMPT_LENGTH == 50000
\* A limit of one more digit.
MutTenMillion_COUNT_LIMIT == 1000000 * 10

COUNT_LIMIT == 1000000

\* ------------------------------------------------------------- characters

WhiteSpace == {" ", "\t", "\n", "\r", "VT", "FF", "NBSP"}

Digits == {"0", "1", "2", "3", "4", "5", "6", "7", "8", "9"}

DigitValue(c) ==
  CASE c = "0" -> 0 [] c = "1" -> 1 [] c = "2" -> 2 [] c = "3" -> 3
    [] c = "4" -> 4 [] c = "5" -> 5 [] c = "6" -> 6 [] c = "7" -> 7
    [] c = "8" -> 8 [] c = "9" -> 9

\* The characters the prompt sanitizer removes: [\x00-\x08\x0B\x0C\x0E-\x1F\x7F].
ControlChars == {"NUL", "BEL", "VT", "FF", "ESC", "DEL"}

\* String.prototype.toUpperCase on one character.
UpperChar(c) ==
  CASE c = "a" -> "A" [] c = "b" -> "B" [] c = "c" -> "C" [] c = "d" -> "D"
    [] c = "e" -> "E" [] c = "f" -> "F" [] c = "g" -> "G" [] c = "h" -> "H"
    [] c = "i" -> "I" [] c = "j" -> "J" [] c = "k" -> "K" [] c = "l" -> "L"
    [] c = "m" -> "M" [] c = "n" -> "N" [] c = "o" -> "O" [] c = "p" -> "P"
    [] c = "q" -> "Q" [] c = "r" -> "R" [] c = "s" -> "S" [] c = "t" -> "T"
    [] c = "u" -> "U" [] c = "v" -> "V" [] c = "w" -> "W" [] c = "x" -> "X"
    [] c = "y" -> "Y" [] c = "z" -> "Z" [] OTHER -> c

ToUpperCase(s) == [i \in 1..Len(s) |-> UpperChar(s[i])]

\* String.prototype.toLowerCase on one character.
LowerChar(c) ==
  CASE c = "A" -> "a" [] c = "B" -> "b" [] c = "C" -> "c" [] c = "D" -> "d"
    [] c = "E" -> "e" [] c = "F" -> "f" [] c = "G" -> "g" [] c = "H" -> "h"
    [] c = "I" -> "i" [] c = "J" -> "j" [] c = "K" -> "k" [] c = "L" -> "l"
    [] c = "M" -> "m" [] c = "N" -> "n" [] c = "O" -> "o" [] c = "P" -> "p"
    [] c = "Q" -> "q" [] c = "R" -> "r" [] c = "S" -> "s" [] c = "T" -> "t"
    [] c = "U" -> "u" [] c = "V" -> "v" [] c = "W" -> "w" [] c = "X" -> "x"
    [] c = "Y" -> "y" [] c = "Z" -> "z" [] OTHER -> c

ToLowerCase(s) == [i \in 1..Len(s) |-> LowerChar(s[i])]

\* ------------------------------------------------------------ text helpers

Drop(s, n) == SubSeq(s, n + 1, Len(s))

RECURSIVE TrimStart(_)
TrimStart(s) ==
  IF s # <<>> /\ Head(s) \in WhiteSpace THEN TrimStart(Tail(s)) ELSE s

RECURSIVE TrimEnd(_)
TrimEnd(s) ==
  IF s # <<>> /\ s[Len(s)] \in WhiteSpace
  THEN TrimEnd(SubSeq(s, 1, Len(s) - 1))
  ELSE s

\* String.prototype.trim
Trim(s) == TrimEnd(TrimStart(s))

\* The last element of s.split("\n"): what follows the last newline.
RECURSIVE LastLineOf(_)
LastLineOf(s) ==
  IF \E i \in 1..Len(s) : s[i] = "\n"
  THEN LastLineOf(Drop(s, CHOOSE i \in 1..Len(s) : s[i] = "\n"))
  ELSE s

\* The end (exclusive) of the longest run of [0-9;] that starts at index i.
RECURSIVE SgrParamsEnd(_, _)
SgrParamsEnd(s, i) ==
  IF i <= Len(s) /\ s[i] \in Digits \cup {";"} THEN SgrParamsEnd(s, i + 1) ELSE i

\* The length of the match of /\x1b\[[0-9;]*m/ at the head of text, or 0.
SgrLength(text) ==
  IF Len(text) >= 2 /\ text[1] = "ESC" /\ text[2] = "["
  THEN LET j == SgrParamsEnd(text, 3)
       IN  IF j <= Len(text) /\ text[j] = "m" THEN j ELSE 0
  ELSE 0

\* text.replaceAll(/\x1b\[[0-9;]*m/g, "")
RECURSIVE stripAnsiCodes(_)
stripAnsiCodes(text) ==
  IF text = <<>> THEN <<>>
  ELSE LET n == SgrLength(text)
       IN  (IF n = 0 THEN <<Head(text)>> ELSE <<>>)
             \o stripAnsiCodes(Drop(text, IF n = 0 THEN 1 ELSE n))

\* Number.parseInt(digits, 10) of a string of decimal digits.
RECURSIVE ParseDigits(_)
ParseDigits(ds) ==
  IF ds = <<>> THEN 0
  ELSE 10 * ParseDigits(SubSeq(ds, 1, Len(ds) - 1)) + DigitValue(ds[Len(ds)])

IsPrefix(p, s) == Len(p) <= Len(s) /\ SubSeq(s, 1, Len(p)) = p

TXT_ALL_CLEAR == <<"A","L","L","_","C","L","E","A","R">>

TXT_CRITICAL_REMAINING ==
  <<"C","R","I","T","I","C","A","L","_","R","E","M","A","I","N","I","N","G",":">>

\* A pattern without its $: the line may go on after the first digit.
MutUnanchored_CriticalMatch(line) ==
  IF IsPrefix(TXT_CRITICAL_REMAINING, ToUpperCase(line))
  THEN LET rest == TrimStart(Drop(line, Len(TXT_CRITICAL_REMAINING)))
       IN  IF rest # <<>> /\ rest[1] \in Digits THEN <<rest[1]>> ELSE <<>>
  ELSE <<>>

\* /^CRITICAL_REMAINING:\s*(\d+)$/i.exec(line): the digits of group 1, or <<>>
\* when the line does not match.
CriticalMatch(line) ==
  IF IsPrefix(TXT_CRITICAL_REMAINING, ToUpperCase(line))
  THEN LET rest == TrimStart(Drop(line, Len(TXT_CRITICAL_REMAINING)))
       IN  IF rest # <<>> /\ \A i \in 1..Len(rest) : rest[i] \in Digits
           THEN rest
           ELSE <<>>
  ELSE <<>>

\* An extractor without its final `return "unknown"`.
MutNoDefault_getStatusFromOutput(text) ==
  LET trimmed == Trim(text)
      lastLine == ToUpperCase(stripAnsiCodes(Trim(LastLineOf(trimmed))))
      digits == CriticalMatch(lastLine)
      count == ParseDigits(digits)
  IN  IF trimmed = <<>> THEN "unknown"
      ELSE IF lastLine = TXT_ALL_CLEAR THEN "all_clear"
      ELSE IF digits # <<>> /\ count >= 0 /\ count < COUNT_LIMIT
           THEN IF count = 0 THEN "all_clear" ELSE "critical_remaining"
           ELSE "undefined"

\* An extractor that trims the last line again once it is stripped.
MutTrimAgain_getStatusFromOutput(text) ==
  LET trimmed == Trim(text)
      lastLine == Trim(ToUpperCase(stripAnsiCodes(Trim(LastLineOf(trimmed)))))
      digits == CriticalMatch(lastLine)
      count == ParseDigits(digits)
  IN  IF trimmed = <<>> THEN "unknown"
      ELSE IF lastLine = TXT_ALL_CLEAR THEN "all_clear"
      ELSE IF digits # <<>> /\ count >= 0 /\ count < COUNT_LIMIT
           THEN IF count = 0 THEN "all_clear" ELSE "critical_remaining"
           ELSE "unknown"

\* The status of an agent transcript, read from its last line.
getStatusFromOutput(text) ==
  LET trimmed == Trim(text)
      lastLine == ToUpperCase(stripAnsiCodes(Trim(LastLineOf(trimmed))))
      digits == CriticalMatch(lastLine)
      count == ParseDigits(digits)
  IN  IF trimmed = <<>> THEN "unknown"
      ELSE IF lastLine = TXT_ALL_CLEAR THEN "all_clear"
      ELSE IF digits # <<>> /\ count >= 0 /\ count < COUNT_LIMIT
           THEN IF count = 0 THEN "all_clear" ELSE "critical_remaining"
           ELSE "unknown"

\* ---------------------------------------------------------------- numbers

IntNum(n) == [kind |-> "int", val |-> n]
FracNum(n) == [kind |-> "frac", val |-> n]
NaN == [kind |-> "nan", val |-> 0]
Undefined == [kind |-> "undefined", val |-> 0]

\* Number.isInteger(x)
IsInteger(x) == x.kind = "int"

\* x < n and x > n for an integer n; every comparison with NaN is false.
LessThan(x, n) == x.kind \in {"int", "frac"} /\ x.val < n
GreaterThan(x, n) ==
  \/ x.kind = "int" /\ x.val > n
  \/ x.kind = "frac" /\ x.val >= n

\* Number.parseInt(val, 10): white space, an optional sign, then the longest
\* run of digits; NaN when there is no digit.
RECURSIVE LeadingDigits(_)
LeadingDigits(s) ==
  IF s # <<>> /\ Head(s) \in Digits
  THEN <<Head(s)>> \o LeadingDigits(Tail(s))
  ELSE <<>>

parseInt(val) ==
  LET s == TrimStart(val)
      negative == s # <<>> /\ Head(s) = "-"
      body == IF s # <<>> /\ Head(s) \in {"-", "+"} THEN Tail(s) ELSE s
      ds == LeadingDigits(body)
  IN  IF ds = <<>> THEN NaN
      ELSE IntNum(IF negative THEN 0 - ParseDigits(ds) ELSE ParseDigits(ds))

\* The --max-passes option parser of the command line: the parsed number, or
\* NaN-or-not-positive, which makes the parser throw.
MaxPassesOptionThrows(val) ==
  LET parsed == parseInt(val) IN parsed.kind = "nan" \/ parsed.val <= 0

\* ----------------------------------------------------------------- errors

NoError == [isError |-> FALSE, site |-> "none", message |-> <<>>]

\* new Error(message), made at `site`.
NewError(site, message) == [isError |-> TRUE, site |-> site, message |-> message]

\* A value that is thrown and is not an Error: a string.
ThrownString(message) == [isError |-> FALSE, site |-> "engine", message |-> message]

MSG_MAX_PASSES ==
  <<"maxPasses", "must", "be", "an", "integer", "between", "1", "and", "100">>
MSG_EMPTY_AFTER_SANITIZATION == <<"Prompt", "is", "empty", "after", "sanitization">>
MSG_AGENT_QUERY_FAILED == <<"Agent", "query", "failed:">>
MSG_QUERY_EXECUTION_FAILED == <<"Query", "execution", "failed:">>
MSG_TYPE_ERROR ==
  <<"Cannot", "read", "properties", "of", "undefined", "(reading", "'toFixed')">>

\* What the engine's stream may raise: an Error, an Error whose message holds
\* the word Invalid, and a thrown string.
EngineErrors ==
  { NewError("engine", <<"ECONNRESET">>),
    NewError("engine", <<"Invalid", "API", "key">>),
    ThrownString(<<"rate", "limited">>) }

\* A catch clause that rethrows what it caught.
MutRethrow_wrapQueryError(error) == error

\* The error runAgent throws for whatever its try block caught.
wrapQueryError(error) ==
  NewError("wrapQueryError", MSG_AGENT_QUERY_FAILED \o error.message)

\* message.includes(words), on the words of the message.
Includes(message, words) ==
  \E i \in 1..(Len(message) - Len(words) + 1) :
     SubSeq(message, i, i + Len(words) - 1) = words

\* handleError's test for a validation error (exit code 2).
IsValidationError(error) ==
  error.isError /\ (Includes(error.message, <<"Invalid">>)
                     \/ Includes(error.message, <<"must", "be">>))

\* ---------------------------------------------------------------- prompts

FIX_PROMPT_PREFIX ==
  << "IMPORTANT: You are in fix mode. [...] apply them directly.", "\n", "\n" >>

DEFAULT_PROMPT == << "Explore all the files in the current directory. [...]" >>

\* A chunk of more than MAX_PROMPT_LENGTH characters.
HugeChunk == "<50001 characters>"

\* prompt.length, every chunk but HugeChunk counted as one character.
RECURSIVE PromptLength(_)
PromptLength(p) ==
  IF p = <<>> THEN 0
  ELSE (IF Head(p) = HugeChunk THEN MAX_PROMPT_LENGTH + 1 ELSE 1)
       + PromptLength(Tail(p))

\* validatePrompt: the message of the error it throws, or <<>>.
validatePrompt(p) ==
  IF Trim(p) = <<>> THEN <<"Prompt", "cannot", "be", "empty">>
  ELSE IF PromptLength(p) > MAX_PROMPT_LENGTH
    THEN <<"Prompt", "exceeds", "maximum", "length", "of", "50000",
           "characters">>
  ELSE <<>>

\* A sanitizer that removes nothing.
MutKeep_Sanitize(p) == p

\* prompt.replaceAll(/[\x00-\x08\x0B\x0C\x0E-\x1F\x7F]/g, "")
Sanitize(p) == SelectSeq(p, LAMBDA c : c \notin ControlChars)

\* A join that stops after the first element.
MutFirst_Join(files, sep) == IF files = <<>> THEN <<>> ELSE <<Head(files)>>

RECURSIVE Join(_, _)
Join(files, sep) ==
  IF files = <<>> THEN <<>>
  ELSE IF Len(files) = 1 THEN files
  ELSE <<Head(files), sep>> \o Join(Tail(files), sep)

CHECK_AND_FIX ==
  " Check if the fixes introduced new issues. Fix any remaining Critical or Warning issues."

\* A re-review prompt that never names a file.
MutGenericOnly_reReviewPrompt(editedFiles) ==
  <<"Re-review all source files that were just modified.", CHECK_AND_FIX>>

\* The prompt of a re-review pass.
reReviewPrompt(editedFiles) ==
  (IF Len(editedFiles) > 0
   THEN <<"Re-review these modified files: ">> \o Join(editedFiles, ", ") \o <<".">>
   ELSE <<"Re-review all source files that were just modified.">>)
  \o <<CHECK_AND_FIX>>

\* ----------------------------------------------------------------- events

\* A content block of an assistant event.
Block(shape, hasName, name, inputIsObject, filePathIsString, filePath, hasText, textIsString, text) ==
  [shape |-> shape, hasName |-> hasName, name |-> name,
   inputIsObject |-> inputIsObject, filePathIsString |-> filePathIsString,
   filePath |-> filePath, hasText |-> hasText, textIsString |-> textIsString,
   text |-> text]

TextBlock(text) == Block("object", FALSE, "", FALSE, FALSE, "", TRUE, TRUE, text)
ToolUseBlock(name, filePath) ==
  Block("object", TRUE, name, TRUE, TRUE, filePath, FALSE, FALSE, <<>>)
ToolUseNoPathBlock(name) ==
  Block("object", TRUE, name, TRUE, FALSE, "", FALSE, FALSE, <<>>)

\* An event of the engine's stream.
Event(shape, typeIsString, type, contentIsArray, content, costIsNumber) ==
  [shape |-> shape, typeIsString |-> typeIsString, type |-> type,
   contentIsArray |-> contentIsArray, content |-> content,
   costIsNumber |-> costIsNumber]

AssistantEvent(content) == Event("object", TRUE, "assistant", TRUE, content, FALSE)
ResultEvent(costIsNumber) == Event("object", TRUE, "result", FALSE, <<>>, costIsNumber)

isValidMessage(message) == message.shape = "object"

\* A test that also wants the block to have an input object.
MutNeedsInput_isFileModificationBlock(block) ==
  /\ block.shape = "object"
  /\ block.hasName
  /\ block.name \in {"Edit", "Write"}
  /\ block.inputIsObject

isFileModificationBlock(block) ==
  /\ block.shape = "object"
  /\ block.hasName
  /\ block.name \in {"Edit", "Write"}

\* The file path of a mutating block, or "" (the code's null).
getEditFilePath(block) ==
  IF block.inputIsObject /\ block.filePathIsString /\ block.filePath # ""
  THEN block.filePath
  ELSE ""

\* An array that keeps every path it is given.
MutAppend_SetAdd(files, f) == Append(files, f)

\* Set.prototype.add on a set kept in insertion order.
SetAdd(files, f) ==
  IF \E i \in 1..Len(files) : files[i] = f THEN files ELSE Append(files, f)

\* collectEdits: the number of mutating blocks of the event, and editedFiles
\* with their file paths added. after[i] is the state of the for loop after
\* block i.
collectEdits(msg, editedFiles) ==
  IF msg.type # "assistant" \/ ~msg.contentIsArray
  THEN [count |-> 0, editedFiles |-> editedFiles]
  ELSE LET content == msg.content
           after[i \in 0..Len(content)] ==
             IF i = 0 THEN [count |-> 0, editedFiles |-> editedFiles]
             ELSE LET block == content[i]
                      filePath == getEditFilePath(block)
                  IN  IF isFileModificationBlock(block)
                      THEN [count |-> after[i - 1].count + 1,
                            editedFiles |->
                              IF filePath # ""
                              THEN SetAdd(after[i - 1].editedFiles, filePath)
                              ELSE after[i - 1].editedFiles]
                      ELSE after[i - 1]
       IN  after[Len(content)]

NullText == [isNull |-> TRUE, value |-> <<>>]

\* An extractor that passes over the empty string: the text of the last block
\* of the event whose text is a non-empty string, or null.
MutNonEmpty_extractLastText(msg) ==
  IF msg.type # "assistant" \/ ~msg.contentIsArray THEN NullText
  ELSE LET content == msg.content
           text[i \in 0..Len(content)] ==
             IF i = 0 THEN NullText
             ELSE LET block == content[i]
                  IN  IF block.shape = "object" /\ block.hasText
                         /\ block.textIsString /\ block.text # <<>>
                      THEN [isNull |-> FALSE, value |-> block.text]
                      ELSE text[i - 1]
       IN  text[Len(content)]

\* extractLastText: the text of the last block of the event that has a string
\* as its text, or null. text[i] is the local `text` after block i.
extractLastText(msg) ==
  IF msg.type # "assistant" \/ ~msg.contentIsArray THEN NullText
  ELSE LET content == msg.content
           text[i \in 0..Len(content)] ==
             IF i = 0 THEN NullText
             ELSE LET block == content[i]
                  IN  IF block.shape = "object" /\ block.hasText
                         /\ block.textIsString
                      THEN [isNull |-> FALSE, value |-> block.text]
                      ELSE text[i - 1]
       IN  text[Len(content)]

\* showMessage throws when handleResult reads total_cost_usd.toFixed of a
\* result event whose cost is not a number.
ShowMessageThrows(message) == message.type = "result" /\ ~message.costIsNumber

\* ------------------------------------------------------------- one pass

EmptyResult == [lastText |-> <<>>, editCount |-> 0, editedFiles |-> <<>>]

\* One turn of executeQuery's for-await loop: the locals lastText, editCount
\* and editedFiles, the number of events handed to showMessage, and whether
\* showMessage threw (which ends the loop).
HandleMessage(acc, message) ==
  LET edits == collectEdits(message, acc.editedFiles)
      text == extractLastText(message)
  IN  IF acc.threw THEN acc
      ELSE IF ~isValidMessage(message) \/ ~message.typeIsString THEN acc
      ELSE IF ShowMessageThrows(message)
      THEN [acc EXCEPT !.editCount = @ + edits.count,
                       !.editedFiles = edits.editedFiles,
                       !.rendered = @ + 1,
                       !.threw = TRUE]
      ELSE [acc EXCEPT !.editCount = @ + edits.count,
                       !.editedFiles = edits.editedFiles,
                       !.rendered = @ + 1,
                       !.lastText = IF text.isNull THEN @ ELSE text.value]

\* The for-await loop over the events of one stream.
ConsumeEvents(events, start) ==
  LET after[i \in 0..Len(events)] ==
        IF i = 0 THEN start ELSE HandleMessage(after[i - 1], events[i])
  IN  after[Len(events)]

\* The catch clause of executeQuery: an Error is rethrown as it is, any other
\* value is wrapped.
executeQueryCatch(error) ==
  IF error.isError THEN error
  ELSE NewError("executeQuery", MSG_QUERY_EXECUTION_FAILED \o error.message)

\* executeQuery from the engine call on, for a stream whose events left the
\* loop's locals as `acc` and which then ended (raise = NoError) or raised
\* `raise`.
PassOutcome(acc, raise) ==
  LET thrown == IF acc.threw THEN NewError("showMessage", MSG_TYPE_ERROR) ELSE raise
  IN  IF thrown # NoError
      THEN [threw |-> TRUE, thrown |-> thrown, error |-> executeQueryCatch(thrown),
            result |-> EmptyResult, rendered |-> acc.rendered]
      ELSE [threw |-> FALSE, thrown |-> NoError, error |-> NoError,
            result |-> [lastText |-> acc.lastText, editCount |-> acc.editCount,
                        editedFiles |-> acc.editedFiles],
            rendered |-> acc.rendered]

\* Locals that hold what an earlier call left in them.
MutStale_FreshLocals ==
  [lastText |-> <<"o","l","d">>, editCount |-> 1, editedFiles |-> <<"old.ts">>,
   rendered |-> 0, threw |-> FALSE]

\* The locals of executeQuery before the first event.
FreshLocals ==
  [lastText |-> <<>>, editCount |-> 0, editedFiles |-> <<>>, rendered |-> 0,
   threw |-> FALSE]

\* --------------------------------------------------- inputs of the loop model

TXT_NON_CONFORMING ==
  <<"l","o","o","k","s"," ","f","i","n","e",","," ">> \o TXT_CRITICAL_REMAINING \o <<" ","1">>

TXT_CRITICAL_1 ==
  <<"F","i","x","e","d",".","\n">> \o TXT_CRITICAL_REMAINING \o <<" ","1">>

\* The events an engine stream of the loop model is made of.
LoopEvents ==
  { AssistantEvent(<<TextBlock(TXT_ALL_CLEAR)>>),
    AssistantEvent(<<TextBlock(TXT_NON_CONFORMING)>>),
    AssistantEvent(<<TextBlock(TXT_CRITICAL_1)>>),
    AssistantEvent(<<ToolUseBlock("Edit", "a.ts"), ToolUseBlock("Write", "b.ts")>>),
    AssistantEvent(<<ToolUseNoPathBlock("Edit")>>),
    ResultEvent(TRUE),
    ResultEvent(FALSE) }

\* The sequences of at most n elements of S.
SeqsUpTo(S, n) == UNION {[1..k -> S] : k \in 0..n}

\* Every way one pass can go: the streams of at most MaxEvents events that end
\* or raise.
PassOutcomes ==
  UNION { LET acc == ConsumeEvents(events, FreshLocals)
          IN  {PassOutcome(acc, raise) : raise \in {NoError} \cup EngineErrors} :
          events \in SeqsUpTo(LoopEvents, MaxEvents) }

P_REVIEW == <<"Review all source files">>
P_CONTROL_ONLY == <<"NUL">>

Prompts ==
  {
    P_REVIEW,
    P_CONTROL_ONLY,
    \* P_BLANK_AFTER_SANITIZATION
    <<"BEL", " ", "\n", "ESC">>,
    \* P_WITH_CONTROLS
    <<"ESC", "Review agent.ts", "NUL">>,
    \* P_EMPTY
    <<>>,
    \* P_WHITESPACE
    <<" ", "\t">>,
    \* P_HUGE
    <<HugeChunk>>
  }

\* maxPasses as a caller of runAgent may give it.
ApiMaxPasses ==
  {Undefined, NaN, FracNum(2), IntNum(0 - 1), IntNum(0), IntNum(1), IntNum(2),
   IntNum(3), IntNum(MAX_PASSES_LIMIT), IntNum(MAX_PASSES_LIMIT + 1)}

\* The raw values of --max-passes.
RawMaxPasses ==
  { <<"1">>, <<"2">>, <<"0">>, <<"-","2">>, <<"2",".","5">>,
    <<"a","b","c">>, <<"1","0","1">>, <<" ","3","x">> }

NoArgv ==
  [prompt |-> [given |-> FALSE, value |-> <<>>], fix |-> FALSE,
   fixRecursive |-> FALSE, maxPasses |-> [given |-> FALSE, raw |-> <<>>]]

NoOpts == [fix |-> FALSE, fixRecursive |-> FALSE, maxPasses |-> Undefined]

\* The long run (maxPasses of 100) is made with the plain prompt only, and
\* the prompts that differ only in what validatePrompt and the sanitizer make
\* of them with the default maxPasses and with 2.
ApiInputs ==
  { in \in [prompt : Prompts, fix : BOOLEAN, fixRecursive : BOOLEAN,
            maxPasses : ApiMaxPasses] :
      /\ in.maxPasses.val >= MAX_PASSES_LIMIT
           => in.prompt = P_REVIEW /\ ~in.fix /\ in.fixRecursive
      /\ in.prompt \notin {P_REVIEW, P_CONTROL_ONLY}
           => in.maxPasses \in {Undefined, IntNum(2)} }

CliInputs ==
  { in \in [prompt : {[given |-> FALSE, value |-> <<>>],
                      [given |-> TRUE, value |-> P_REVIEW],
                      [given |-> TRUE, value |-> P_CONTROL_ONLY]},
            fix : BOOLEAN, fixRecursive : BOOLEAN,
            maxPasses : {[given |-> FALSE, raw |-> <<>>]}
                        \cup {[given |-> TRUE, raw |-> r] : r \in RawMaxPasses}] :
      /\ in.prompt.given => in.maxPasses.raw \in {<<>>, <<"2">>, <<"0">>}
      /\ in.maxPasses.raw \notin {<<>>, <<"2">>, <<"0">>} => in.fixRecursive /\ ~in.fix }

\* ------------------------------------------------------------------ state

VARIABLES
  entry,        \* "cli": started from the command line; "api": runAgent called
  apiKeySet,    \* ANTHROPIC_API_KEY is set
  argv,         \* the command line
  opts,         \* the options: commander's in run, then runAgent's
  prompt,       \* runAgent's prompt
  maxPasses,    \* runRecursive's parameter
  pc,           \* where the program is
  pass,         \* the pass of runRecursive: the one running, or the next one
  result,       \* runRecursive's result: the last Pass Result returned
  calls,        \* executeQuery invocations so far
  engineCalls,  \* query() invocations so far
  streamOpen,   \* engine streams being consumed
  lastPrompt,   \* the prompt of the last executeQuery invocation
  sentPrompt,   \* the prompt of the last query() call
  rendered,     \* showMessage calls of the current executeQuery call
  banners,      \* the terminal banners printed
  err,          \* the error runAgent rejected with, or the parser's
  thrown,       \* the value first thrown, before any wrapping
  exitCode,     \* the exit code of the process, -1 while it runs
  firstZero,    \* the first pass that returned editCount = 0, or 0
  \* one pass, event by event
  stream,       \* the events the for-await loop has taken from the stream
  locals,       \* executeQuery's lastText, editCount, editedFiles
  \* the status extractor on its own
  lastIndex,    \* the lastIndex of the CRITICAL_REMAINING regular expression
  classified,   \* the calls of getStatusFromOutput so far: text and status
  \* the body of the for-await loop, step by step
  phase,        \* where the loop is in the handling of the event it has taken
  inFlight,     \* the events whose showMessage promise has not settled
  handled,      \* the steps of the handling done so far: event and step
  \* the confirmation of bypassPermissions
  env,          \* CONFIRM_BYPASS_PERMISSIONS is "1", stdin is a terminal
  gateOpts,     \* model, permissionMode and bypassConfirmed as given
  answer,       \* what came of the question of confirmBypass
  confirmed,    \* confirmBypass returned
  engineMode    \* the permissionMode query() was called with, or "none"

\* The variables of the run of the program.
runVars ==
  <<entry, apiKeySet, argv, opts, prompt, maxPasses, pc, pass, result, calls,
    engineCalls, streamOpen, lastPrompt, sentPrompt, rendered, banners, err,
    thrown, exitCode, firstZero>>

\* The variables of the models of one pass, of the status extractor, of the
\* loop body and of the confirmation.
passVars == <<stream, locals>>
classifyVars == <<lastIndex, classified>>
orderVars == <<phase, inFlight, handled>>
gateVars == <<env, gateOpts, answer, confirmed, engineMode>>
unitVars == <<passVars, classifyVars, orderVars, gateVars>>

vars == <<runVars, unitVars>>

CLI_DEFAULT_MAX_PASSES == 5

\* The model follows a run for this many executeQuery invocations beyond
\* maxPasses.
MaxExtraCalls == 2

\* The run is still followed when executeQuery is invoked once more.
CallAllowed == calls < maxPasses.val + MaxExtraCalls

\* The models of one pass and of the status extractor are not running.
PassIdle == stream = <<>> /\ locals = FreshLocals
ClassifyIdle == lastIndex = 0 /\ classified = <<>>
OrderIdle == phase = "next" /\ inFlight = {} /\ handled = <<>>
\* The question of confirmBypass was not asked.
NoAnswer == [given |-> FALSE, timedOut |-> FALSE, text |-> <<>>]
GateIdle ==
  /\ env = [confirm |-> FALSE, isTTY |-> FALSE]
  /\ gateOpts = [model |-> "undefined", permissionMode |-> "undefined",
                 bypassConfirmed |-> FALSE]
  /\ answer = NoAnswer
  /\ confirmed = FALSE
  /\ engineMode = "none"
UnitIdle == PassIdle /\ ClassifyIdle /\ OrderIdle /\ GateIdle

Init ==
  /\ \/ /\ entry = "api"
        /\ apiKeySet = TRUE
        /\ argv = NoArgv
        /\ \E in \in ApiInputs :
             /\ prompt = in.prompt
             /\ opts = [fix |-> in.fix, fixRecursive |-> in.fixRecursive,
                        maxPasses |-> in.maxPasses]
        /\ pc = "runAgent"
     \/ /\ entry = "cli"
        /\ apiKeySet \in BOOLEAN
        /\ argv \in CliInputs
        /\ prompt = <<>>
        /\ opts = NoOpts
        /\ pc = "cli"
  /\ maxPasses = Undefined
  /\ pass = 0
  /\ result = EmptyResult
  /\ calls = 0
  /\ engineCalls = 0
  /\ streamOpen = 0
  /\ lastPrompt = <<>>
  /\ sentPrompt = <<>>
  /\ rendered = 0
  /\ banners = <<>>
  /\ err = NoError
  /\ thrown = NoError
  /\ exitCode = 0 - 1
  /\ firstZero = 0
  /\ UnitIdle

\* A process that ends with exit code 1 whatever it is given.
MutAlwaysFail_Exit(code) == pc' = "exited" /\ exitCode' = 1

\* process.exit(code), or the process dying of an uncaught error.
Exit(code) == pc' = "exited" /\ exitCode' = code

\* A catch clause that swallows the error and lets the caller go on.
MutSwallow_Throw(error, original) ==
  /\ pc' = "loop"
  /\ err' = err
  /\ thrown' = original

\* A throw inside runAgent's try block: runAgent rejects with the wrapped error.
Throw(error, original) ==
  /\ pc' = "rejected"
  /\ err' = wrapQueryError(error)
  /\ thrown' = original

\* Boolean(x) of a number.
Truthy(x) == x.kind = "frac" \/ (x.kind = "int" /\ x.val # 0)

\* program.parse: commander runs the --max-passes parser; what it throws is
\* not caught.
ParseArgs ==
  /\ pc = "cli"
  /\ UNCHANGED unitVars
  /\ IF argv.maxPasses.given /\ MaxPassesOptionThrows(argv.maxPasses.raw)
     THEN /\ Exit(1)
          /\ err' = NewError("option",
                      <<"--max-passes", "must", "be", "a", "positive", "integer">>)
          /\ thrown' = err'
          /\ UNCHANGED opts
     ELSE /\ pc' = "run"
          /\ opts' = [fix |-> argv.fix, fixRecursive |-> argv.fixRecursive,
                      maxPasses |-> IF argv.maxPasses.given
                                    THEN parseInt(argv.maxPasses.raw)
                                    ELSE IntNum(CLI_DEFAULT_MAX_PASSES)]
          /\ UNCHANGED <<err, thrown, exitCode>>
  /\ UNCHANGED <<entry, apiKeySet, argv, prompt, maxPasses, pass, result, calls,
                 engineCalls, streamOpen, lastPrompt, sentPrompt, rendered,
                 banners, firstZero>>

\* run, up to its call of runAgent.
Run ==
  /\ pc = "run"
  /\ UNCHANGED unitVars
  /\ IF ~apiKeySet
     THEN Exit(1) /\ UNCHANGED <<prompt, opts>>
     ELSE /\ pc' = "runAgent"
          /\ prompt' = IF argv.prompt.given THEN argv.prompt.value ELSE DEFAULT_PROMPT
          /\ opts' = [fix |-> opts.fix \/ opts.fixRecursive,
                      fixRecursive |-> opts.fixRecursive,
                      maxPasses |-> IF Truthy(opts.maxPasses) THEN opts.maxPasses
                                    ELSE Undefined]
          /\ UNCHANGED exitCode
  /\ UNCHANGED <<entry, apiKeySet, argv, maxPasses, pass, result, calls,
                 engineCalls, streamOpen, lastPrompt, sentPrompt, rendered,
                 banners, err, thrown, firstZero>>

\* executeQuery, up to its first await: the prompt is sanitized, and query()
\* is called unless nothing is left of it.
ExecuteQueryCall(p) ==
  /\ CallAllowed
  /\ calls' = calls + 1
  /\ lastPrompt' = p
  /\ rendered' = 0
  /\ IF Len(Trim(Sanitize(p))) = 0
     THEN /\ Throw(NewError("executeQuery", MSG_EMPTY_AFTER_SANITIZATION),
                   NewError("executeQuery", MSG_EMPTY_AFTER_SANITIZATION))
          /\ UNCHANGED <<engineCalls, streamOpen, sentPrompt>>
     ELSE /\ engineCalls' = engineCalls + 1
          /\ streamOpen' = streamOpen + 1
          /\ sentPrompt' = Sanitize(p)
          /\ pc' = "stream"
          /\ UNCHANGED <<err, thrown>>

\* A test that takes --fix for --fix-recursive.
MutAnyFix_FixRecursive(o) == o.fix \/ o.fixRecursive

\* The test runAgent makes to call runRecursive: `if (opts.fixRecursive)`.
FixRecursive(o) == o.fixRecursive

\* runAgent, up to its first executeQuery or to its call of runRecursive.
RunAgent ==
  /\ pc = "runAgent"
  /\ UNCHANGED unitVars
  /\ IF validatePrompt(prompt) # <<>>
     THEN /\ pc' = "rejected"
          /\ err' = NewError("validatePrompt", validatePrompt(prompt))
          /\ thrown' = err'
          /\ UNCHANGED <<maxPasses, calls, engineCalls, streamOpen, lastPrompt,
                         sentPrompt, rendered>>
     ELSE IF FixRecursive(opts)
     THEN /\ pc' = "runRecursive"
          /\ maxPasses' = IF opts.maxPasses = Undefined
                          THEN IntNum(DEFAULT_MAX_PASSES) ELSE opts.maxPasses
          /\ UNCHANGED <<calls, engineCalls, streamOpen, lastPrompt, sentPrompt,
                         rendered, err, thrown>>
     ELSE /\ ExecuteQueryCall(IF opts.fix THEN FIX_PROMPT_PREFIX \o prompt
                              ELSE prompt)
          /\ UNCHANGED maxPasses
  /\ UNCHANGED <<entry, apiKeySet, argv, opts, prompt, pass, result, banners,
                 exitCode, firstZero>>

\* The guard without its upper limit.
MutNoUpperBound_ValidMaxPasses(m) == ~(~IsInteger(m) \/ LessThan(m, 1))

\* The guard of runRecursive.
ValidMaxPasses(m) ==
  ~(~IsInteger(m) \/ LessThan(m, 1) \/ GreaterThan(m, MAX_PASSES_LIMIT))

\* runRecursive, up to the executeQuery call of pass 1.
RunRecursive ==
  /\ pc = "runRecursive"
  /\ UNCHANGED unitVars
  /\ IF ~ValidMaxPasses(maxPasses)
     THEN /\ Throw(NewError("runRecursive", MSG_MAX_PASSES),
                   NewError("runRecursive", MSG_MAX_PASSES))
          /\ UNCHANGED <<pass, calls, engineCalls, streamOpen, lastPrompt,
                         sentPrompt, rendered>>
     ELSE /\ pass' = 1
          /\ ExecuteQueryCall(FIX_PROMPT_PREFIX \o prompt)
  /\ UNCHANGED <<entry, apiKeySet, argv, opts, prompt, maxPasses, result,
                 banners, exitCode, firstZero>>

\* A loop that forgets `pass++`.
MutNoIncrement_NextPass(p) == IF p = 1 THEN 2 ELSE p

\* The loop variable of runRecursive after pass p: `pass = 2` after pass 1,
\* `pass++` after the others.
NextPass(p) == p + 1

\* A stream that stays open when its loop is left.
MutLeak_CloseStream(n) == n

\* The open streams once the for-await loop is left, by the end of the stream
\* or by an exception.
CloseStream(n) == n - 1

\* The for-await loop of executeQuery, from the first event to the end of the
\* stream, and what the caller does when executeQuery returns or throws.
Drain ==
  /\ pc = "stream"
  /\ UNCHANGED unitVars
  /\ \E o \in PassOutcomes :
       /\ streamOpen' = CloseStream(streamOpen)
       /\ rendered' = o.rendered
       /\ IF o.threw
          THEN \* the frame of runRecursive is unwound and its result with it
               /\ Throw(o.error, o.thrown)
               /\ result' = EmptyResult
               /\ UNCHANGED <<pass, firstZero>>
          ELSE /\ result' = o.result
               /\ IF FixRecursive(opts)
                  THEN /\ pc' = "loop"
                       /\ pass' = NextPass(pass)
                       /\ firstZero' = IF firstZero = 0 /\ o.result.editCount = 0
                                       THEN pass ELSE firstZero
                  ELSE /\ pc' = "returned"
                       /\ UNCHANGED <<pass, firstZero>>
               /\ UNCHANGED <<err, thrown>>
  /\ UNCHANGED <<entry, apiKeySet, argv, opts, prompt, maxPasses, calls,
                 engineCalls, lastPrompt, sentPrompt, banners, exitCode>>

\* A loop that runs one pass too many.
MutOffByOne_LoopCondition(p, m) == p <= m.val + 1

\* A loop that stops one pass short.
MutStrict_LoopCondition(p, m) == p < m.val

\* The test of the for loop of runRecursive.
LoopCondition(p, m) == p <= m.val

\* An early stop taken also when the pass reported all clear.
MutOrClear_NoEdits(r) ==
  r.editCount = 0 \/ getStatusFromOutput(r.lastText) = "all_clear"

\* A loop body without the early stop.
MutNever_NoEdits(r) == FALSE

\* An early stop taken only when the pass reported all clear.
MutClearOnly_NoEdits(r) ==
  r.editCount = 0 /\ getStatusFromOutput(r.lastText) = "all_clear"

\* The early stop of the loop body.
NoEdits(r) == r.editCount = 0

\* A loop that reports all clear whatever it found.
MutAlwaysClear_Banner(text) == banners' = Append(banners, "ALL_CLEAR")

Banner(text) == banners' = Append(banners, text)

\* One turn of the for loop of runRecursive, up to its executeQuery call, or
\* what follows the loop.
Loop ==
  /\ pc = "loop"
  /\ UNCHANGED unitVars
  /\ IF LoopCondition(pass, maxPasses)
     THEN IF NoEdits(result)
          THEN /\ Banner(IF getStatusFromOutput(result.lastText) = "all_clear"
                         THEN "ALL_CLEAR" ELSE "STOPPED_NO_EDITS")
               /\ pc' = "returned"
               /\ UNCHANGED <<calls, engineCalls, streamOpen, lastPrompt, sentPrompt,
                              rendered, err, thrown>>
          ELSE /\ ExecuteQueryCall(reReviewPrompt(result.editedFiles))
               /\ UNCHANGED banners
     ELSE /\ Banner(IF getStatusFromOutput(result.lastText) = "all_clear"
                    THEN "ALL_CLEAR" ELSE "MAX_PASSES_REACHED")
          /\ pc' = "returned"
          /\ UNCHANGED <<calls, engineCalls, streamOpen, lastPrompt, sentPrompt,
                         rendered, err, thrown>>
  /\ UNCHANGED <<entry, apiKeySet, argv, opts, prompt, maxPasses, pass, result,
                 exitCode, firstZero>>

\* The catch clause of run.
handleError ==
  /\ pc = "rejected"
  /\ UNCHANGED unitVars
  /\ entry = "cli"
  /\ Exit(IF IsValidationError(err) THEN 2 ELSE 1)
  /\ UNCHANGED <<entry, apiKeySet, argv, opts, prompt, maxPasses, pass, result,
                 calls, engineCalls, streamOpen, lastPrompt, sentPrompt, rendered,
                 banners, err, thrown, firstZero>>

\* run returns and the process ends.
Finish ==
  /\ pc = "returned"
  /\ UNCHANGED unitVars
  /\ entry = "cli"
  /\ Exit(0)
  /\ UNCHANGED <<entry, apiKeySet, argv, opts, prompt, maxPasses, pass, result,
                 calls, engineCalls, streamOpen, lastPrompt, sentPrompt, rendered,
                 banners, err, thrown, firstZero>>

Next ==
  \/ ParseArgs
  \/ Run
  \/ RunAgent
  \/ RunRecursive
  \/ Drain
  \/ Loop
  \/ handleError
  \/ Finish

Spec == Init /\ [][Next]_vars

\* The places the program can be at.
PcValues ==
  {"cli", "run", "runAgent", "runRecursive", "stream", "loop", "returned",
   "rejected", "exited"}

\* The program has a step to take: it is not at its end (the process exited,
\* or runAgent settled for a caller that is not the command line), and the
\* model still follows it.
Running ==
  \/ pc \in {"cli", "run", "runAgent", "runRecursive", "stream"}
  \/ pc = "loop"
       /\ (LoopCondition(pass, maxPasses) /\ ~NoEdits(result) => CallAllowed)
  \/ pc \in {"returned", "rejected"} /\ entry = "cli"

\* Some step of the program: every action of Next moves pc.
Step == Running /\ pc' \in PcValues \ {pc}

\* The engine's streams are finite, rendering completes and every await is
\* resumed: the program does not stop where it has a step to take. Next is
\* enabled exactly where Running holds and its steps all move pc, so this is
\* weak fairness of Next, with an ENABLED that is decided without enumerating
\* the outcomes of a pass.
FairSpec == Spec /\ WF_pc(Step)

\* ------------------------------------------------ one pass, event by event

\* The run of the program is not modelled: only `at` is.
RunIdle(at) ==
  /\ entry = "none"
  /\ apiKeySet = TRUE
  /\ argv = NoArgv
  /\ opts = NoOpts
  /\ prompt = <<>>
  /\ maxPasses = Undefined
  /\ pc = at
  /\ pass = 0
  /\ result = EmptyResult
  /\ calls = 0
  /\ engineCalls = 0
  /\ streamOpen = 0
  /\ lastPrompt = <<>>
  /\ sentPrompt = <<>>
  /\ rendered = 0
  /\ banners = <<>>
  /\ err = NoError
  /\ thrown = NoError
  /\ exitCode = 0 - 1
  /\ firstZero = 0


TX_FOUND == <<"F","o","u","n","d"," ","2">>
TX_FIXED == <<"F","i","x","e","d">>

\* A block whose text property is not a string.
NonStringTextBlock == Block("object", FALSE, "", FALSE, FALSE, "", TRUE, FALSE, <<>>)

\* A value of the stream that is not an object.
NotAMessage == Event("null", FALSE, "", FALSE, <<>>, FALSE)

\* A message that is an array.
ArrayMessage == Event("array", FALSE, "", FALSE, <<>>, FALSE)

\* A message whose type is not a string, with a mutating block in its content.
NoTypeEvent ==
  Event("object", FALSE, "", TRUE, <<ToolUseBlock("Edit", "n.ts")>>, FALSE)

\* An assistant event whose content is missing or not an array.
NoContentEvent == Event("object", TRUE, "assistant", FALSE, <<>>, FALSE)

\* A block that is null.
NullBlock == Block("null", FALSE, "", FALSE, FALSE, "", FALSE, FALSE, <<>>)

\* A block without a name, with a file path in its input.
NamelessBlock == Block("object", FALSE, "", TRUE, TRUE, "x.ts", FALSE, FALSE, <<>>)

\* A block with a name and without an input object.
NoInputBlock(name) == Block("object", TRUE, name, FALSE, FALSE, "", FALSE, FALSE, <<>>)

\* A user event whose content holds a mutating block and a text block.
UserContentEvent ==
  Event("object", TRUE, "user", TRUE,
        <<ToolUseBlock("Edit", "z.ts"), TextBlock(TX_FIXED)>>, FALSE)

\* The events a stream of the pass model is made of.
PassEvents ==
  { AssistantEvent(<<TextBlock(TX_FOUND)>>),
    AssistantEvent(<<TextBlock(TX_FOUND), TextBlock(TX_FIXED)>>),
    AssistantEvent(<<TextBlock(<<>>)>>),
    AssistantEvent(<<TextBlock(TX_FIXED), ToolUseBlock("Edit", "a.ts")>>),
    AssistantEvent(<<ToolUseBlock("Edit", "a.ts"), ToolUseBlock("Write", "b.ts"),
                     ToolUseBlock("Edit", "a.ts")>>),
    AssistantEvent(<<ToolUseNoPathBlock("Write"), ToolUseBlock("Edit", "")>>),
    AssistantEvent(<<ToolUseBlock("Read", "c.ts"), NonStringTextBlock>>),
    AssistantEvent(<<NullBlock, NamelessBlock>>),
    AssistantEvent(<<NoInputBlock("Edit")>>),
    NoContentEvent,
    NoTypeEvent,
    ArrayMessage,
    UserContentEvent,
    NotAMessage,
    ResultEvent(TRUE),
    ResultEvent(FALSE) }

\* The longest stream of the pass model.
MaxPassEvents == 3

PassInit == RunIdle("pass") /\ UnitIdle

\* The stream yields an event and the body of the for-await loop runs on it;
\* an exception of showMessage leaves executeQuery through its catch clause.
Yield ==
  /\ pc = "pass"
  /\ Len(stream) < MaxPassEvents
  /\ \E message \in PassEvents :
       LET after == HandleMessage(locals, message)
           outcome == PassOutcome(after, NoError)
       IN  /\ stream' = Append(stream, message)
           /\ locals' = after
           /\ rendered' = after.rendered
           /\ pc' = IF outcome.threw THEN "passThrew" ELSE pc
           /\ thrown' = outcome.thrown
           /\ err' = outcome.error
  /\ UNCHANGED <<entry, apiKeySet, argv, opts, prompt, maxPasses, pass, result,
                 calls, engineCalls, streamOpen, lastPrompt, sentPrompt,
                 banners, exitCode, firstZero, classifyVars, orderVars,
                 gateVars>>

\* The stream ends and executeQuery returns its Pass Result.
Return ==
  /\ pc = "pass"
  /\ pc' = "passReturned"
  /\ result' = PassOutcome(locals, NoError).result
  /\ UNCHANGED <<entry, apiKeySet, argv, opts, prompt, maxPasses, pass, calls,
                 engineCalls, streamOpen, lastPrompt, sentPrompt, rendered,
                 banners, err, thrown, exitCode, firstZero, unitVars>>

\* The stream raises and executeQuery throws from its catch clause.
Raise ==
  /\ pc = "pass"
  /\ \E raise \in EngineErrors :
       LET outcome == PassOutcome(locals, raise)
       IN  /\ pc' = "passThrew"
           /\ thrown' = outcome.thrown
           /\ err' = outcome.error
           /\ result' = outcome.result
  /\ UNCHANGED <<entry, apiKeySet, argv, opts, prompt, maxPasses, pass, calls,
                 engineCalls, streamOpen, lastPrompt, sentPrompt, rendered,
                 banners, exitCode, firstZero, unitVars>>

PassNext == Yield \/ Return \/ Raise

PassSpec == PassInit /\ [][PassNext]_vars

\* ------------------------------------- the body of the for-await loop

\* The events a stream of the loop-body model is made of.
OrderEvents ==
  { AssistantEvent(<<TextBlock(TX_FOUND)>>),
    AssistantEvent(<<ToolUseBlock("Edit", "a.ts"), TextBlock(TX_FIXED)>>),
    NotAMessage,
    ResultEvent(TRUE),
    ResultEvent(FALSE) }

\* The longest stream of the loop-body model.
MaxOrderEvents == 3

\* A call of showMessage whose promise nobody waits for.
MutFireAndForget_AwaitsShowMessage == ~TRUE

\* executeQuery waits for the promise of showMessage (`await showMessage`),
\* which settles after every block of the event was rendered, markdown
\* formatting included (`await handleContentBlock`, `await marked.parse`).
AwaitsShowMessage == TRUE

OrderInit == RunIdle("consume") /\ UnitIdle

\* The event the loop body is handling.
Current == stream[Len(stream)]

HandledStep(n, step) == [event |-> n, step |-> step]

\* for await: the loop takes the next event of the stream; what is not a
\* message with a string type is skipped.
Take ==
  /\ pc = "consume"
  /\ phase = "next"
  /\ Len(stream) < MaxOrderEvents
  /\ \E message \in OrderEvents :
       /\ stream' = Append(stream, message)
       /\ phase' = IF ~isValidMessage(message) \/ ~message.typeIsString
                   THEN "next" ELSE "collectEdits"
  /\ UNCHANGED <<runVars, locals, inFlight, handled, classifyVars, gateVars>>

\* editCount += collectEdits(message, editedFiles)
Track ==
  /\ pc = "consume"
  /\ phase = "collectEdits"
  /\ LET edits == collectEdits(Current, locals.editedFiles)
     IN  locals' = [locals EXCEPT !.editCount = @ + edits.count,
                                  !.editedFiles = edits.editedFiles]
  /\ handled' = Append(handled, HandledStep(Len(stream), "collectEdits"))
  /\ phase' = "showMessage"
  /\ UNCHANGED <<runVars, stream, inFlight, classifyVars, gateVars>>

\* showMessage(message) is called: rendering starts.
Show ==
  /\ pc = "consume"
  /\ phase = "showMessage"
  /\ inFlight' = inFlight \cup {Len(stream)}
  /\ phase' = IF AwaitsShowMessage THEN "await" ELSE "extractLastText"
  /\ UNCHANGED <<runVars, stream, locals, handled, classifyVars, gateVars>>

\* The promise of a showMessage call settles: the event is rendered, or
\* handleResult threw; the loop body goes on if it was waiting for it.
Settle ==
  /\ pc = "consume"
  /\ \E n \in inFlight :
       /\ inFlight' = inFlight \ {n}
       /\ handled' = Append(handled, HandledStep(n, "showMessage"))
       /\ locals' = [locals EXCEPT !.rendered = @ + 1]
       /\ IF ShowMessageThrows(stream[n])
          THEN /\ pc' = "consumeThrew"
               /\ thrown' = NewError("showMessage", MSG_TYPE_ERROR)
               /\ err' = executeQueryCatch(thrown')
               /\ UNCHANGED phase
          ELSE /\ phase' = IF phase = "await" THEN "extractLastText" ELSE phase
               /\ UNCHANGED <<pc, thrown, err>>
  /\ UNCHANGED <<entry, apiKeySet, argv, opts, prompt, maxPasses, pass, result,
                 calls, engineCalls, streamOpen, lastPrompt, sentPrompt,
                 rendered, banners, exitCode, firstZero, stream, classifyVars,
                 gateVars>>

\* lastText = extractLastText(message) ?? lastText
Text ==
  /\ pc = "consume"
  /\ phase = "extractLastText"
  /\ LET text == extractLastText(Current)
     IN  locals' = [locals EXCEPT !.lastText = IF text.isNull THEN @ ELSE text.value]
  /\ handled' = Append(handled, HandledStep(Len(stream), "extractLastText"))
  /\ phase' = "next"
  /\ UNCHANGED <<runVars, stream, inFlight, classifyVars, gateVars>>

\* The stream ends and executeQuery returns.
End ==
  /\ pc = "consume"
  /\ phase = "next"
  /\ pc' = "consumeReturned"
  /\ result' = PassOutcome(locals, NoError).result
  /\ UNCHANGED <<entry, apiKeySet, argv, opts, prompt, maxPasses, pass, calls,
                 engineCalls, streamOpen, lastPrompt, sentPrompt, rendered,
                 banners, err, thrown, exitCode, firstZero, unitVars>>

OrderNext == Take \/ Track \/ Show \/ Settle \/ Text \/ End

OrderSpec == OrderInit /\ [][OrderNext]_vars

\* --------------------------------- the confirmation of bypassPermissions

VALID_MODELS == {"claude-sonnet-4-5-20250929", "claude-opus-4-6", "claude-opus-4"}
VALID_PERMISSION_MODES == {"default", "acceptEdits", "bypassPermissions"}

MSG_INVALID_MODEL == <<"Invalid", "model:">>
MSG_INVALID_PERMISSION_MODE == <<"Invalid", "permission", "mode:">>
MSG_REQUIRES_CONFIRMATION ==
  <<"bypassPermissions", "requires", "confirmation", "via", "the", "CLI">>

\* What the user may type at the question.
Answers ==
  { <<"y","e","s">>, <<" ","Y","e","s","\n">>, <<"y">>, <<"n","o">>, <<>>,
    <<"y","e","s","!">> }

\* The command line: --model and --permission-mode have defaults, and there
\* is no option for bypassConfirmed.
GateCliInputs ==
  [model : {"claude-sonnet-4-5-20250929", "gpt-4"},
   permissionMode : {"acceptEdits", "default", "bypassPermissions", "plan"},
   bypassConfirmed : {FALSE}]

\* The options a caller of runAgent may give.
GateApiInputs ==
  [model : {"undefined", "claude-opus-4", "gpt-4"},
   permissionMode : {"undefined", "acceptEdits", "default", "bypassPermissions",
                     "plan"},
   bypassConfirmed : BOOLEAN]

GateInit ==
  /\ \/ /\ entry = "cli"
        /\ apiKeySet \in BOOLEAN
        /\ gateOpts \in GateCliInputs
        /\ env \in [confirm : BOOLEAN, isTTY : BOOLEAN]
        /\ pc = "gateRun"
     \/ /\ entry = "api"
        /\ apiKeySet = TRUE
        /\ gateOpts \in GateApiInputs
        /\ env = [confirm |-> FALSE, isTTY |-> FALSE]
        /\ pc = "gateRunAgent"
  /\ argv = NoArgv
  /\ opts = NoOpts
  /\ prompt = P_REVIEW
  /\ maxPasses = Undefined
  /\ pass = 0
  /\ result = EmptyResult
  /\ calls = 0
  /\ engineCalls = 0
  /\ streamOpen = 0
  /\ lastPrompt = <<>>
  /\ sentPrompt = <<>>
  /\ rendered = 0
  /\ banners = <<>>
  /\ err = NoError
  /\ thrown = NoError
  /\ exitCode = 0 - 1
  /\ firstZero = 0
  /\ PassIdle /\ ClassifyIdle /\ OrderIdle
  /\ answer = NoAnswer
  /\ confirmed = FALSE
  /\ engineMode = "none"

\* A throw that run's catch clause, or the caller of runAgent, receives.
GateThrow(site, message) ==
  /\ pc' = "rejected"
  /\ err' = NewError(site, message)
  /\ thrown' = err'

\* run, up to confirmBypass or to its call of runAgent.
GateRun ==
  /\ pc = "gateRun"
  /\ IF ~apiKeySet
     THEN Exit(1) /\ UNCHANGED <<err, thrown, gateOpts>>
     ELSE IF gateOpts.permissionMode \notin VALID_PERMISSION_MODES
     THEN /\ GateThrow("validatePermissionMode", MSG_INVALID_PERMISSION_MODE)
          /\ UNCHANGED <<exitCode, gateOpts>>
     ELSE IF gateOpts.permissionMode = "bypassPermissions"
     THEN /\ pc' = "confirmBypass"
          /\ UNCHANGED <<err, thrown, exitCode, gateOpts>>
     ELSE /\ pc' = "gateRunAgent"
          /\ gateOpts' = [gateOpts EXCEPT !.bypassConfirmed =
                            gateOpts.permissionMode = "bypassPermissions"]
          /\ UNCHANGED <<err, thrown, exitCode>>
  /\ UNCHANGED <<entry, apiKeySet, argv, opts, prompt, maxPasses, pass, result,
                 calls, engineCalls, streamOpen, lastPrompt, sentPrompt,
                 rendered, banners, firstZero, passVars, classifyVars,
                 orderVars, env, answer, confirmed, engineMode>>

\* confirmBypass, up to its question.
ConfirmBypass ==
  /\ pc = "confirmBypass"
  /\ IF ~env.confirm
     THEN GateThrow("confirmBypass",
                    <<"bypassPermissions", "mode", "requires",
                      "CONFIRM_BYPASS_PERMISSIONS=1", "environment",
                      "variable.">>)
     ELSE IF ~env.isTTY
     THEN GateThrow("confirmBypass",
                    <<"bypassPermissions", "mode", "requires", "an",
                      "interactive", "terminal">>)
     ELSE pc' = "question" /\ UNCHANGED <<err, thrown>>
  /\ UNCHANGED <<entry, apiKeySet, argv, opts, prompt, maxPasses, pass, result,
                 calls, engineCalls, streamOpen, lastPrompt, sentPrompt,
                 rendered, banners, exitCode, firstZero, unitVars>>

\* The user answers the question: confirmBypass ends the process unless the
\* answer is yes, and run goes on to its call of runAgent when it is.
Answer ==
  /\ pc = "question"
  /\ \E text \in Answers :
       /\ answer' = [given |-> TRUE, timedOut |-> FALSE, text |-> text]
       /\ IF ToLowerCase(Trim(text)) # <<"y","e","s">>
          THEN Exit(1) /\ UNCHANGED <<confirmed, gateOpts>>
          ELSE /\ confirmed' = TRUE
               /\ gateOpts' = [gateOpts EXCEPT !.bypassConfirmed =
                                 gateOpts.permissionMode = "bypassPermissions"]
               /\ pc' = "gateRunAgent"
               /\ UNCHANGED exitCode
  /\ UNCHANGED <<entry, apiKeySet, argv, opts, prompt, maxPasses, pass, result,
                 calls, engineCalls, streamOpen, lastPrompt, sentPrompt,
                 rendered, banners, err, thrown, firstZero, passVars,
                 classifyVars, orderVars, env, engineMode>>

\* The 30 seconds pass without an answer: confirmBypass throws.
Timeout ==
  /\ pc = "question"
  /\ answer' = [given |-> FALSE, timedOut |-> TRUE, text |-> <<>>]
  /\ GateThrow("confirmBypass",
               <<"Timeout", "waiting", "for", "confirmation", "(30s).">>)
  /\ UNCHANGED <<entry, apiKeySet, argv, opts, prompt, maxPasses, pass, result,
                 calls, engineCalls, streamOpen, lastPrompt, sentPrompt,
                 rendered, banners, exitCode, firstZero, passVars,
                 classifyVars, orderVars, env, gateOpts, confirmed, engineMode>>

\* A resolveOptions without the test of bypassConfirmed.
MutOpen_NeedsConfirmation(o) == FALSE

\* The test of resolveOptions on bypassConfirmed.
NeedsConfirmation(o) ==
  (IF o.permissionMode = "undefined" THEN "acceptEdits" ELSE o.permissionMode)
     = "bypassPermissions" /\ ~o.bypassConfirmed

\* runAgent, from validatePrompt and resolveOptions to the query() call of
\* its executeQuery.
GateRunAgent ==
  /\ pc = "gateRunAgent"
  /\ LET model == IF gateOpts.model = "undefined"
                  THEN "claude-sonnet-4-5-20250929" ELSE gateOpts.model
         permissionMode == IF gateOpts.permissionMode = "undefined"
                           THEN "acceptEdits" ELSE gateOpts.permissionMode
     IN  IF validatePrompt(prompt) # <<>>
         THEN /\ GateThrow("validatePrompt", validatePrompt(prompt))
              /\ UNCHANGED <<calls, engineCalls, streamOpen, engineMode>>
         ELSE IF model \notin VALID_MODELS
         THEN /\ GateThrow("resolveOptions", MSG_INVALID_MODEL)
              /\ UNCHANGED <<calls, engineCalls, streamOpen, engineMode>>
         ELSE IF permissionMode \notin VALID_PERMISSION_MODES
         THEN /\ GateThrow("resolveOptions", MSG_INVALID_PERMISSION_MODE)
              /\ UNCHANGED <<calls, engineCalls, streamOpen, engineMode>>
         ELSE IF NeedsConfirmation(gateOpts)
         THEN /\ GateThrow("resolveOptions", MSG_REQUIRES_CONFIRMATION)
              /\ UNCHANGED <<calls, engineCalls, streamOpen, engineMode>>
         ELSE /\ pc' = "gateQuery"
              /\ calls' = calls + 1
              /\ engineCalls' = engineCalls + 1
              /\ streamOpen' = streamOpen + 1
              /\ engineMode' = permissionMode
              /\ UNCHANGED <<err, thrown>>
  /\ UNCHANGED <<entry, apiKeySet, argv, opts, prompt, maxPasses, pass, result,
                 lastPrompt, sentPrompt, rendered, banners, exitCode, firstZero,
                 passVars, classifyVars, orderVars, env, gateOpts, answer,
                 confirmed>>

GateNext ==
  \/ GateRun
  \/ ConfirmBypass
  \/ Answer
  \/ Timeout
  \/ GateRunAgent
  \/ handleError

GateSpec == GateInit /\ [][GateNext]_vars

\* ------------------------------------------- the status extractor on its own

T_EMPTY == <<>>
T_BLANK == <<" ","\n","\t">>
T_CLEAR_ANSI ==
  <<"o","k","\n","ESC","[","3","2","m","A","L","L","_","C","L","E","A","R",
    "ESC","[","0","m">>
T_CLEAR_SPACE_ANSI ==
  <<"ESC","[","3","2","m","A","L","L","_","C","L","E","A","R"," ","ESC","[","0","m">>
T_THREE ==
  <<"x","\n","C","R","I","T","I","C","A","L","_","R","E","M","A","I","N","I",
    "N","G",":"," ","3">>
T_LOWER ==
  <<"c","r","i","t","i","c","a","l","_","r","e","m","a","i","n","i","n","g",
    ":"," "," ","2">>
T_MILLION ==
  <<"C","R","I","T","I","C","A","L","_","R","E","M","A","I","N","I","N","G",
    ":"," ","1","0","0","0","0","0","0">>
T_ZEROS7 ==
  <<"C","R","I","T","I","C","A","L","_","R","E","M","A","I","N","I","N","G",
    ":"," ","0","0","0","0","0","0","0">>

\* The transcripts the status extractor is given.
Texts ==
  {
    T_EMPTY,
    T_BLANK,
    \* T_DONE
    <<"d","o","n","e">>,
    \* T_CLEAR
    <<"F","i","x","e","d",".","\n","A","L","L","_","C","L","E","A","R">>,
    \* T_CLEAR_TRAILING
    <<"A","L","L","_","C","L","E","A","R"," ","\n","\n">>,
    \* T_CLEAR_LOWER
    <<"a","l","l","_","c","l","e","a","r">>,
    T_CLEAR_ANSI,
    \* T_CLEAR_ANSI_SPACE
    <<"ESC","[","0","m"," ","A","L","L","_","C","L","E","A","R">>,
    \* T_CLEAR_WORDS
    <<"A","L","L","_","C","L","E","A","R"," ","n","o","w">>,
    \* T_CLEAR_NOT_LAST
    <<"A","L","L","_","C","L","E","A","R","\n","d","o","n","e">>,
    \* T_ANSI_LAST
    <<"A","L","L","_","C","L","E","A","R","\n","ESC","[","0","m">>,
    \* T_ZERO
    <<"x","\n","C","R","I","T","I","C","A","L","_","R","E","M","A","I","N",
      "I", "N","G",":"," ","0">>,
    T_THREE,
    \* T_NO_SPACE
    <<"C","R","I","T","I","C","A","L","_","R","E","M","A","I","N","I","N",
      "G", ":","2">>,
    T_LOWER,
    \* T_ANSI_COUNT
    <<"ESC","[","1",";","3","1","m","C","R","I","T","I","C","A","L","_","R",
      "E", "M","A","I","N","I","N","G",":"," ","2","ESC","[","0","m">>,
    \* T_MAX6
    <<"C","R","I","T","I","C","A","L","_","R","E","M","A","I","N","I","N",
      "G", ":"," ","9","9","9","9","9","9">>,
    T_MILLION,
    T_ZEROS7,
    \* T_PADDED7
    <<"C","R","I","T","I","C","A","L","_","R","E","M","A","I","N","I","N",
      "G", ":"," ","0","0","0","0","0","0","1">>,
    \* T_NEGATIVE
    <<"C","R","I","T","I","C","A","L","_","R","E","M","A","I","N","I","N",
      "G", ":"," ","-","1">>,
    \* T_SUFFIX
    <<"C","R","I","T","I","C","A","L","_","R","E","M","A","I","N","I","N",
      "G", ":"," ","1"," ","l","e","f","t">>,
    \* T_NO_NUMBER
    <<"C","R","I","T","I","C","A","L","_","R","E","M","A","I","N","I","N",
      "G", ":">>,
    T_CLEAR_SPACE_ANSI,
    \* T_COUNT_SPACE_ANSI
    <<"ESC","[","3","1","m"," ">> \o TXT_CRITICAL_REMAINING \o <<" ","2",
      "ESC","[","0","m">>,
    TXT_NON_CONFORMING,
    TXT_CRITICAL_1
  }

\* The most calls of getStatusFromOutput the model follows.
MaxClassified == 2

\* A regular expression that carries the g flag and is shared by the calls.
MutShared_CRITICAL_RE == [global |-> TRUE, perCall |-> FALSE]

\* The regular expression of getStatusFromOutput: a literal without the g or
\* y flag, evaluated anew by every call.
CRITICAL_RE == [global |-> FALSE, perCall |-> TRUE]

\* RegExp.prototype.exec: where matching starts, given the lastIndex the call
\* finds.
ExecStart(re, li) == IF re.global /\ ~re.perCall THEN li ELSE 0

\* RegExp.prototype.exec: the lastIndex it leaves.
ExecLastIndex(re, li, matched, len) ==
  IF re.global /\ ~re.perCall THEN (IF matched THEN len ELSE 0) ELSE li

\* The local lastLine of getStatusFromOutput.
LastLine(text) ==
  ToUpperCase(stripAnsiCodes(Trim(LastLineOf(Trim(text)))))

ClassifyInit == RunIdle("classify") /\ UnitIdle

\* One call of getStatusFromOutput. The regular expression is anchored at the
\* start of the line: exec finds nothing when it starts anywhere else.
Classify ==
  /\ pc = "classify"
  /\ Len(classified) < MaxClassified
  /\ \E text \in Texts :
       LET line == LastLine(text)
           execRuns == Trim(text) # <<>> /\ line # TXT_ALL_CLEAR
           from == ExecStart(CRITICAL_RE, lastIndex)
           matched == from = 0 /\ CriticalMatch(line) # <<>>
           status == IF execRuns /\ from # 0 THEN "unknown"
                     ELSE getStatusFromOutput(text)
       IN  /\ classified' = Append(classified, [text |-> text, status |-> status])
           /\ lastIndex' = IF execRuns
                           THEN ExecLastIndex(CRITICAL_RE, lastIndex, matched,
                                              Len(line))
                           ELSE lastIndex
  /\ UNCHANGED <<runVars, passVars, orderVars, gateVars>>

ClassifyNext == Classify

ClassifySpec == ClassifyInit /\ [][ClassifyNext]_vars

\* ------------------------------------------------------------------ claims

\* runRecursive was called (its parameter is bound).
InRunRecursive == maxPasses # Undefined

\* maxPasses is an integer of 1..100.
InRange(m) == m.kind = "int" /\ m.val >= 1 /\ m.val <= MAX_PASSES_LIMIT

\* runRecursive returned without an error.
ReturnedOk == InRunRecursive /\ pc \in {"returned", "exited"} /\ err = NoError

\* The status of the last Pass Result runRecursive holds.
LastStatus == getStatusFromOutput(result.lastText)

\* C1: in a runRecursive run with a valid maxPasses, the 1-based index of the
\* pass being executed is at most maxPasses, and no more than maxPasses
\* executeQuery calls (and engine calls) are ever made.
C1_PassesBounded ==
  (InRunRecursive /\ InRange(maxPasses)) =>
     /\ calls <= maxPasses.val
     /\ engineCalls <= maxPasses.val
     /\ (pc = "stream" => pass >= 1 /\ pass <= maxPasses.val /\ calls = pass)

\* C1 witness: the pass being executed is pass maxPasses = 3.
C1_Witness ==
  /\ InRunRecursive /\ maxPasses = IntNum(3)
  /\ pc = "stream" /\ pass = 3 /\ calls = 3

\* A run of runRecursive is over: with no error and exactly one banner, or with
\* an error and no banner.
C2_Over ==
  /\ pc \in {"returned", "rejected", "exited"}
  /\ \/ err = NoError /\ Len(banners) = 1
        /\ banners[1] \in {"ALL_CLEAR", "STOPPED_NO_EDITS", "MAX_PASSES_REACHED"}
     \/ err # NoError /\ banners = <<>>

\* C2: every run of runRecursive, whatever maxPasses is, eventually ends, in
\* exactly one of the terminal outcomes ALL_CLEAR, STOPPED_NO_EDITS,
\* MAX_PASSES_REACHED or in an error, and stays there: it never loops forever.
C2_Terminates == (pc = "runRecursive") ~> [](C2_Over)

\* C2 witness: a run of three passes that ended in MAX_PASSES_REACHED.
C2_Witness ==
  /\ InRunRecursive /\ pc = "returned" /\ calls = 3
  /\ banners = <<"MAX_PASSES_REACHED">> /\ err = NoError

C4_AsStated ==
  (ReturnedOk /\ InRange(maxPasses) /\ firstZero # 0 /\ LastStatus # "all_clear") =>
     calls = firstZero /\ banners = <<"STOPPED_NO_EDITS">>

\* C4, amended: whenever pass k returns editCount = 0, pass k is the last
\* pass: exactly k calls are made. When its last text does not classify as
\* all_clear, the loop stops with STOPPED_NO_EDITS if k < maxPasses and with
\* MAX_PASSES_REACHED if k = maxPasses.
C4_NoEditsStop ==
  (InRunRecursive /\ InRange(maxPasses) /\ firstZero # 0) =>
     /\ calls = firstZero
     /\ pc \in {"loop", "returned", "exited"}
     /\ (pc # "loop" /\ LastStatus # "all_clear") =>
           banners = <<IF firstZero < maxPasses.val THEN "STOPPED_NO_EDITS"
                       ELSE "MAX_PASSES_REACHED">>

\* C4 witness: maxPasses = 1 and the only pass made no edits and reported
\* critical issues: the run ended in MAX_PASSES_REACHED.
C4_Witness ==
  /\ ReturnedOk /\ maxPasses = IntNum(1) /\ firstZero = 1 /\ calls = 1
  /\ LastStatus = "critical_remaining"
  /\ banners = <<"MAX_PASSES_REACHED">>

C6_StopsOnAllClear ==
  (InRunRecursive /\ pc = "stream" /\ pass >= 2) => LastStatus # "all_clear"

\* C6: the state the documentation excludes: pass 2 is being executed although
\* pass 1 reported all clear.
C6_PassAfterAllClear ==
  /\ InRunRecursive /\ pc = "stream" /\ pass = 2 /\ calls = 2
  /\ LastStatus = "all_clear" /\ result.editCount > 0

\* C7: when the engine raises while pass k is executed, runRecursive ends with
\* an error: pass k is not retried and pass k + 1 is not started (k calls were
\* made and no more are), the stream is closed and no banner is printed.
C7_EngineErrorEnds ==
  (InRunRecursive /\ thrown.site = "engine") =>
     /\ pc \in {"rejected", "exited"}
     /\ calls = pass /\ engineCalls = pass
     /\ streamOpen = 0
     /\ banners = <<>>
     /\ err.isError
     /\ pc = "exited" => exitCode \in {1, 2}

\* C7 witness: the engine raised during pass 2 of 3.
C7_Witness ==
  /\ InRunRecursive /\ maxPasses = IntNum(3) /\ thrown.site = "engine"
  /\ pass = 2 /\ calls = 2 /\ pc = "rejected"

\* C8 as stated: the error the engine raises reaches the caller of runAgent
\* unchanged.
C8_AsStated ==
  (thrown.site = "engine" /\ pc \in {"rejected", "exited"}) => err = thrown

\* The message executeQuery's catch clause leaves of a thrown value.
C8_Caught ==
  IF thrown.isError THEN thrown.message
  ELSE MSG_QUERY_EXECUTION_FAILED \o thrown.message

\* C8, amended: the caller of runAgent receives a new Error whose message is
\* "Agent query failed: " followed by the message of what the engine raised
\* (for a raised value that is not an Error, by "Query execution failed: "
\* and that value); an error of the configuration raised inside runAgent's
\* try block is wrapped in the same way.
C8_Wrapped ==
  /\ (thrown.site = "engine" /\ pc \in {"rejected", "exited"}) =>
        /\ err = NewError("wrapQueryError", MSG_AGENT_QUERY_FAILED \o C8_Caught)
        /\ err # thrown
  /\ (thrown.site = "runRecursive" /\ pc \in {"rejected", "exited"}) =>
        err = NewError("wrapQueryError", MSG_AGENT_QUERY_FAILED \o thrown.message)

\* C8 witness: the engine raised the Error "Invalid API key" and the command
\* line ended with the exit code of a validation error.
C8_Witness ==
  /\ thrown = NewError("engine", <<"Invalid", "API", "key">>)
  /\ pc = "exited" /\ exitCode = 2

\* C9: a maxPasses that is not an integer of 1..100 makes runRecursive fail
\* at once with a configuration error, before any executeQuery or engine
\* call; this holds for the values the command line parser lets through.
C9_InvalidMaxPasses ==
  (InRunRecursive /\ ~InRange(maxPasses) /\ pc # "runRecursive") =>
     /\ pc \in {"rejected", "exited"}
     /\ calls = 0 /\ engineCalls = 0 /\ pass = 0
     /\ banners = <<>>
     /\ thrown = NewError("runRecursive", MSG_MAX_PASSES)
     /\ err.isError /\ Includes(err.message, MSG_MAX_PASSES)
     /\ pc = "exited" => exitCode = 2

\* C9 witness: --max-passes 101 passed the parser and runRecursive refused it.
C9_Witness ==
  /\ entry = "cli" /\ argv.maxPasses.given /\ maxPasses = IntNum(101)
  /\ pc = "exited" /\ exitCode = 2 /\ calls = 0

\* The prompt is empty or whitespace only once its control characters are
\* removed.
C10_Blank(p) == \A i \in 1..Len(p) : p[i] \in ControlChars \cup WhiteSpace

\* C10: executeQuery makes no engine call when its prompt is empty or
\* whitespace only after sanitization: it raises an error before the engine
\* is called, and no event is rendered or counted.
C10_NoEngineCall ==
  (calls > 0 /\ C10_Blank(lastPrompt)) =>
     /\ engineCalls = calls - 1
     /\ streamOpen = 0
     /\ rendered = 0
     /\ result = EmptyResult
     /\ pc \in {"rejected", "exited"}
     /\ thrown = NewError("executeQuery", MSG_EMPTY_AFTER_SANITIZATION)

\* C10 witness: a prompt of control characters only passed validatePrompt and
\* executeQuery refused it.
C10_Witness ==
  /\ calls = 1 /\ lastPrompt = P_CONTROL_ONLY /\ engineCalls = 0
  /\ pc = "rejected"

\* C11 as stated: a failure of showMessage on one event does not abort the
\* pass or the loop: runAgent never rejects because showMessage threw.
C11_RenderingIsolated ==
  ~(thrown.site = "showMessage" /\ pc \in {"rejected", "exited"} /\ err.isError)

\* C11: the state the claim excludes: showMessage threw on a result event
\* without a numeric cost during pass 1 of the loop, the pass returned no
\* Pass Result and runRecursive ended without a banner.
C11_PassAborted ==
  /\ InRunRecursive /\ thrown = NewError("showMessage", MSG_TYPE_ERROR)
  /\ pc = "rejected" /\ pass = 1 /\ calls = 1 /\ rendered >= 1
  /\ result = EmptyResult /\ banners = <<>>
  /\ err = NewError("wrapQueryError", MSG_AGENT_QUERY_FAILED \o MSG_TYPE_ERROR)

\* C12: getStatusFromOutput is total: for every text, the empty one, one of
\* white space only, one with trailing white space and one with ANSI codes
\* among them, every call returns one of all_clear, critical_remaining and
\* unknown.
C12_Total ==
  \A i \in 1..Len(classified) :
     /\ classified[i].status \in {"all_clear", "critical_remaining", "unknown"}
     /\ classified[i].text \in {T_EMPTY, T_BLANK} => classified[i].status = "unknown"

\* C12 witness: the extractor was given white space only and then a text
\* with ANSI codes and answered both times.
C12_Witness ==
  classified = << [text |-> T_BLANK, status |-> "unknown"],
                  [text |-> T_CLEAR_ANSI, status |-> "all_clear"] >>

\* The digits of N when `line` is CRITICAL_REMAINING:, white space, and the
\* digits of N up to the end of the line, as a set: empty when it is not.
C13_Number(line) ==
  LET n == Len(TXT_CRITICAL_REMAINING)
  IN  { SubSeq(line, j, Len(line)) : j \in
          { k \in (n + 1)..Len(line) :
              /\ SubSeq(line, 1, n) = TXT_CRITICAL_REMAINING
              /\ \A i \in (n + 1)..(k - 1) : line[i] \in WhiteSpace
              /\ \A i \in k..Len(line) : line[i] \in Digits } }

\* The status the convention gives a normalized line, for numbers `ok`
\* accepts.
C13_StatusOf(line, ok(_)) ==
  IF line = TXT_ALL_CLEAR THEN "all_clear"
  ELSE IF \E ds \in C13_Number(line) : ok(ds) /\ ParseDigits(ds) = 0
       THEN "all_clear"
  ELSE IF \E ds \in C13_Number(line) : ok(ds) /\ ParseDigits(ds) > 0
       THEN "critical_remaining"
  ELSE "unknown"

\* The last line of the trimmed text, normalized as the specification says:
\* stripped of ANSI codes, uppercased, and trimmed again.
C13_LineAsStated(text) ==
  Trim(ToUpperCase(stripAnsiCodes(LastLineOf(Trim(text)))))

\* The last line of the trimmed text, as the code normalizes it: trimmed,
\* then stripped of ANSI codes, then uppercased.
C13_Line(text) ==
  ToUpperCase(stripAnsiCodes(Trim(LastLineOf(Trim(text)))))

\* C13 as stated: all_clear iff the normalized last line is ALL_CLEAR or
\* CRITICAL_REMAINING: <N> with N = 0, critical_remaining iff it is
\* CRITICAL_REMAINING: <N> with N > 0 (N of at most 6 digits), and unknown
\* for every other text.
C13_AsStated ==
  \A i \in 1..Len(classified) :
     classified[i].status =
       C13_StatusOf(C13_LineAsStated(classified[i].text),
                    LAMBDA ds : Len(ds) <= 6)

\* C13, amended: with the last line trimmed before its ANSI codes are
\* stripped and not after, and N accepted when its value is below 1000000:
\* all_clear iff the line is ALL_CLEAR or CRITICAL_REMAINING: <N> with
\* N = 0, critical_remaining iff it is CRITICAL_REMAINING: <N> with N > 0,
\* and unknown for every other text.
C13_Classifies ==
  \A i \in 1..Len(classified) :
     classified[i].status =
       C13_StatusOf(C13_Line(classified[i].text),
                    LAMBDA ds : ParseDigits(ds) < 1000000)

\* C13 witness: a last line that holds a marker among other words was
\* classified unknown, and a conforming one critical_remaining.
C13_Witness ==
  classified = << [text |-> TXT_NON_CONFORMING, status |-> "unknown"],
                  [text |-> T_LOWER, status |-> "critical_remaining"] >>

\* C14 as stated: a status line whose number has 7 digits or more is
\* classified unknown.
C14_AsStated ==
  \A i \in 1..Len(classified) :
     (\E ds \in C13_Number(C13_Line(classified[i].text)) : Len(ds) >= 7) =>
        classified[i].status = "unknown"

\* C14, amended: the number of a status line is accepted by its value, not
\* by its length: a line whose number is 1000000 or more is classified
\* unknown, and a zero-padded number of 7 digits or more whose value is
\* below 1000000 is accepted (0 gives all_clear, any other critical_remaining).
C14_ValueLimit ==
  \A i \in 1..Len(classified) :
     \A ds \in C13_Number(C13_Line(classified[i].text)) :
        classified[i].status =
          IF ParseDigits(ds) >= 1000000 THEN "unknown"
          ELSE IF ParseDigits(ds) = 0 THEN "all_clear"
          ELSE "critical_remaining"

\* C14 witness: 0000000 was classified all_clear and 1000000 unknown.
C14_Witness ==
  classified = << [text |-> T_ZEROS7, status |-> "all_clear"],
                  [text |-> T_MILLION, status |-> "unknown"] >>

AssistantBlocks ==
  UNION { { <<i, j>> : j \in 1..Len(stream[i].content) } :
          i \in { k \in 1..Len(stream) : stream[k].type = "assistant" } }

BlockAt(p) == stream[p[1]].content[p[2]]

\* The blocks named Edit or Write of the assistant events of the pass.
C16_MutatingBlocks ==
  { p \in AssistantBlocks : BlockAt(p).hasName /\ BlockAt(p).name \in {"Edit", "Write"} }

\* The non-empty file_path values of those blocks.
C16_Paths ==
  { BlockAt(p).filePath :
      p \in { q \in C16_MutatingBlocks :
                BlockAt(q).inputIsObject /\ BlockAt(q).filePathIsString
                  /\ BlockAt(q).filePath # "" } }

\* C16: when a pass returns, editCount is the number of blocks named Edit or
\* Write in the assistant events of its stream, and editedFiles holds each
\* non-empty file_path of those blocks once and nothing else (no such block:
\* editCount 0 and no file; three blocks on two paths: editCount 3 and two
\* files).
C16_EditsCounted ==
  pc = "passReturned" =>
     /\ result.editCount = Cardinality(C16_MutatingBlocks)
     /\ { result.editedFiles[i] : i \in 1..Len(result.editedFiles) } = C16_Paths
     /\ Len(result.editedFiles) = Cardinality(C16_Paths)

\* C16 witness: a pass whose stream held three mutating blocks on two paths,
\* among events that hold none, returned editCount 3 and two files.
C16_Witness ==
  /\ pc = "passReturned"
  /\ Len(stream) = 3
  /\ stream[2] = AssistantEvent(<<ToolUseBlock("Edit", "a.ts"),
                                  ToolUseBlock("Write", "b.ts"),
                                  ToolUseBlock("Edit", "a.ts")>>)
  /\ stream[3] = UserContentEvent
  /\ result.editCount = 3
  /\ result.editedFiles = <<"a.ts", "b.ts">>

\* The text of the most recent block of `blocks`, or the empty string.
C17_MostRecent(blocks) ==
  IF blocks = {} THEN <<>>
  ELSE BlockAt(CHOOSE p \in blocks :
                 \A q \in blocks :
                    q[1] < p[1] \/ (q[1] = p[1] /\ q[2] <= p[2])).text

\* The blocks of the assistant events of the pass whose text is a string.
C17_TextBlocks ==
  { p \in AssistantBlocks : BlockAt(p).hasText /\ BlockAt(p).textIsString }

\* C17 as stated: when a pass returns, lastText is the text of the most
\* recent non-empty text block of its assistant events, and the empty string
\* only if there was none: an empty text block leaves lastText as it was.
C17_AsStated ==
  pc = "passReturned" =>
     result.lastText =
       C17_MostRecent({ p \in C17_TextBlocks : BlockAt(p).text # <<>> })

\* C17, amended: when a pass returns, lastText is the text of the most recent
\* text block of its assistant events, empty or not (last-write-wins across
\* events and across the blocks of an event), and the empty string if there
\* was none; an event without text blocks leaves lastText as it was.
C17_LastWriteWins ==
  pc = "passReturned" => result.lastText = C17_MostRecent(C17_TextBlocks)

\* C17 witness: a pass whose stream held a text, then an empty text block,
\* then an event without text blocks, returned the empty string.
C17_Witness ==
  /\ pc = "passReturned"
  /\ stream = << AssistantEvent(<<TextBlock(TX_FOUND), TextBlock(TX_FIXED)>>),
                 AssistantEvent(<<TextBlock(<<>>)>>),
                 AssistantEvent(<<ToolUseBlock("Read", "c.ts"), NonStringTextBlock>>) >>
  /\ result.lastText = <<>>

\* `p` holds `piece` as one of its parts.
C18_Contains(p, piece) == \E i \in 1..Len(p) : p[i] = piece

C19_SinglePass ==
  ~opts.fixRecursive =>
     /\ maxPasses = Undefined
     /\ pc \notin {"runRecursive", "loop"}
     /\ pass = 0
     /\ banners = <<>>
     /\ thrown.site # "runRecursive"
     /\ calls <= 1
     /\ pc \in {"stream", "returned"} => calls = 1
     /\ (pc = "exited" /\ exitCode = 0) => calls = 1
     /\ (pc \in {"rejected", "exited"} /\ calls = 0) =>
           thrown.site \in {"validatePrompt", "option"} \/ ~apiKeySet
     /\ calls = 1 =>
           lastPrompt = IF opts.fix THEN FIX_PROMPT_PREFIX \o prompt ELSE prompt

\* C19 witness: runAgent called with fix, without fixRecursive and with a
\* maxPasses of 0 returned after one invocation of executeQuery.
C19_Witness ==
  /\ entry = "api" /\ opts.fix /\ ~opts.fixRecursive
  /\ opts.maxPasses = IntNum(0)
  /\ pc = "returned" /\ calls = 1 /\ engineCalls = 1
  /\ err = NoError

\* C20: a runRecursive run that reached one of its three terminal outcomes
\* (ALL_CLEAR, MAX_PASSES_REACHED, STOPPED_NO_EDITS) completed without
\* throwing: runAgent returned, handleError was not called, and the command
\* line process ends with exit code 0; and a run that returned has reached
\* exactly one of them.
C20_OutcomesNotFailures ==
  /\ (InRunRecursive /\ banners # <<>>) =>
        /\ Len(banners) = 1
        /\ banners[1] \in {"ALL_CLEAR", "MAX_PASSES_REACHED", "STOPPED_NO_EDITS"}
        /\ err = NoError /\ thrown = NoError
        /\ pc \in {"returned", "exited"}
        /\ pc = "exited" => exitCode = 0
  /\ ReturnedOk => Len(banners) = 1

\* C20 witness: the command line run that stopped for want of edits ended
\* with exit code 0.
C20_Witness ==
  /\ entry = "cli" /\ InRunRecursive
  /\ banners = <<"STOPPED_NO_EDITS">>
  /\ pc = "exited" /\ exitCode = 0

C22_Rank(step) ==
  IF step = "collectEdits" THEN 1 ELSE IF step = "showMessage" THEN 2 ELSE 3

\* Event n is a message the loop body handles.
C22_Handles(n) == stream[n].shape = "object" /\ stream[n].typeIsString

\* C22: within a pass the events are handled in the order of the stream, by
\* one consumer: the steps done so far follow the order of the events and,
\* for one event, the order edit tracking, rendering, lastText; no rendering
\* but that of the event being handled is ever in progress; and when the loop
\* has taken event N+1, the three steps of every event before it are done.
C22_InOrder ==
  /\ \A i, j \in 1..Len(handled) :
        i < j =>
          \/ handled[i].event < handled[j].event
          \/ /\ handled[i].event = handled[j].event
             /\ C22_Rank(handled[i].step) < C22_Rank(handled[j].step)
  /\ inFlight \subseteq {Len(stream)}
  /\ \A n \in 1..Len(stream) :
        (C22_Handles(n) /\ (n < Len(stream) \/ pc = "consumeReturned")) =>
           \A step \in {"collectEdits", "showMessage", "extractLastText"} :
              \E i \in 1..Len(handled) : handled[i] = HandledStep(n, step)
  /\ pc = "consumeReturned" =>
        result = PassOutcome(ConsumeEvents(stream, FreshLocals), NoError).result

\* C22 witness: the loop has taken a third event after it handled two, each
\* in three steps.
C22_Witness ==
  /\ pc = "consume" /\ Len(stream) = 3 /\ phase = "collectEdits"
  /\ C22_Handles(1) /\ C22_Handles(2)
  /\ handled = << HandledStep(1, "collectEdits"), HandledStep(1, "showMessage"),
                  HandledStep(1, "extractLastText"), HandledStep(2, "collectEdits"),
                  HandledStep(2, "showMessage"), HandledStep(2, "extractLastText") >>

\* C23: passes never overlap: at most one engine stream is open at any time,
\* one is open exactly while a pass is being executed, and the engine is
\* called for a pass only when no stream is open, the stream of the pass
\* before having been drained and its Pass Result returned to the loop.
C23_NoOverlap ==
  [][ /\ streamOpen \in {0, 1} /\ streamOpen' \in {0, 1}
      /\ (streamOpen = 1) = (pc = "stream")
      /\ (streamOpen' = 1) = (pc' = "stream")
      /\ engineCalls' # engineCalls =>
           /\ engineCalls' = engineCalls + 1
           /\ streamOpen = 0 /\ streamOpen' = 1
           /\ pc \in {"runAgent", "runRecursive", "loop"}
           /\ pc = "loop" => (pass >= 2 /\ calls = pass - 1 /\ result.editCount > 0)
    ]_vars

\* C23 witness: the stream of pass 2 is the only one open, after the engine
\* was called twice.
C23_Witness ==
  /\ InRunRecursive /\ pc = "stream" /\ pass = 2
  /\ engineCalls = 2 /\ streamOpen = 1 /\ result # EmptyResult

\* The blocks of the assistant events of the stream s, as pairs of indexes.
C24_Blocks(s) ==
  UNION { { <<i, j>> : j \in 1..Len(s[i].content) } :
          i \in { k \in 1..Len(s) : s[k].type = "assistant" } }

\* The blocks of s named Edit or Write.
C24_Mutating(s) ==
  { p \in C24_Blocks(s) :
      s[p[1]].content[p[2]].hasName /\ s[p[1]].content[p[2]].name \in {"Edit", "Write"} }

\* The non-empty file paths of the blocks of s named Edit or Write.
C24_Paths(s) ==
  { s[p[1]].content[p[2]].filePath :
      p \in { q \in C24_Mutating(s) :
                /\ s[q[1]].content[q[2]].inputIsObject
                /\ s[q[1]].content[q[2]].filePathIsString
                /\ s[q[1]].content[q[2]].filePath # "" } }

\* The text of the most recent text block of s, or the empty string.
C24_Text(s) ==
  LET texts == { p \in C24_Blocks(s) :
                   s[p[1]].content[p[2]].hasText /\ s[p[1]].content[p[2]].textIsString }
  IN  IF texts = {} THEN <<>>
      ELSE LET last == CHOOSE p \in texts :
                         \A q \in texts :
                            q[1] < p[1] \/ (q[1] = p[1] /\ q[2] <= p[2])
           IN  s[last[1]].content[last[2]].text

\* What a pass returns when it starts from nothing, for every stream of the
\* loop model that is rendered without an exception.
C24_FreshResults ==
  { [lastText |-> C24_Text(s), editCount |-> Cardinality(C24_Mutating(s)),
     files |-> C24_Paths(s)] :
    s \in { t \in SeqsUpTo(LoopEvents, MaxEvents) :
              \A i \in 1..Len(t) : ~(t[i].type = "result" /\ ~t[i].costIsNumber) } }

\* C24: Pass Results are not aggregated: the result the loop holds after a
\* pass is the one the events of a single stream give to an executeQuery call
\* that starts with editCount 0, no edited file and an empty lastText, and the
\* prompt of the next pass is made of the edited files of that result alone.
C24_NoAggregation ==
  /\ (InRunRecursive /\ pass >= 2 /\ pc \in {"loop", "stream", "returned"}) =>
        /\ [lastText |-> result.lastText, editCount |-> result.editCount,
            files |-> { result.editedFiles[i] : i \in 1..Len(result.editedFiles) }]
             \in C24_FreshResults
        /\ Len(result.editedFiles) <= result.editCount
  /\ (InRunRecursive /\ pass >= 2 /\ pc = "stream") =>
        lastPrompt = reReviewPrompt(result.editedFiles)

\* C24 witness: pass 1 made edits, the stream of pass 2 was empty: the result
\* of pass 2 holds no edit, no file and no text.
C24_Witness ==
  /\ InRunRecursive /\ pc = "loop" /\ pass = 3 /\ calls = 2
  /\ firstZero = 2 /\ result = EmptyResult

\* C25 as stated: the last line is trimmed again once its ANSI codes are
\* stripped, so a text classifies as the bare status line it is left with.
C25_AsStated ==
  \A i \in 1..Len(classified) :
     Trim(classified[i].text) # <<>> =>
        classified[i].status =
          getStatusFromOutput(C13_LineAsStated(classified[i].text))

\* C25, amended: the last line is trimmed, then stripped of its ANSI codes,
\* then uppercased, and not trimmed again: when white space is left at an
\* end of it (white space between the status token and a colour code at the
\* edge of the line), the text classifies as unknown; when none is left, it
\* classifies as the bare status line.
C25_TrimmedBeforeStrip ==
  \A i \in 1..Len(classified) :
     LET line == C13_Line(classified[i].text)
     IN  Trim(classified[i].text) # <<>> =>
           classified[i].status =
             IF Trim(line) # line THEN "unknown" ELSE getStatusFromOutput(line)

\* C25 witness: ESC[32mALL_CLEAR ESC[0m was classified unknown, and the same
\* line without the space all_clear.
C25_Witness ==
  classified = << [text |-> T_CLEAR_SPACE_ANSI, status |-> "unknown"],
                  [text |-> T_CLEAR_ANSI, status |-> "all_clear"] >>

\* The event is not an assistant turn, or is malformed.
C26_NotAssistant(m) ==
  m.shape # "object" \/ ~m.typeIsString \/ m.type # "assistant" \/ ~m.contentIsArray

\* The event a step of the pass model has taken from the stream.
C26_Taken == stream'[Len(stream')]

\* C26 as stated: an event that is not an assistant turn, a malformed event,
\* and an event whose blocks are null, not objects, without a name or without
\* an input object, adds nothing to editCount, leaves editedFiles as it is and
\* does not make the Edit Tracker throw.
C26_AsStated ==
  [][ (/\ Len(stream') = Len(stream) + 1
       /\ \/ C26_NotAssistant(C26_Taken)
          \/ \A j \in 1..Len(C26_Taken.content) :
                \/ C26_Taken.content[j].shape # "object"
                \/ ~C26_Taken.content[j].hasName
                \/ ~C26_Taken.content[j].inputIsObject) =>
        /\ locals'.editCount = locals.editCount
        /\ locals'.editedFiles = locals.editedFiles
        /\ pc' = "passThrew" => C26_Taken.type = "result"
    ]_vars

\* C26, amended: an event that is not an assistant turn, and a malformed
\* event (not an object, an array, a type that is not a string, a content
\* that is not an array) adds nothing to editCount and leaves editedFiles as
\* it is; so does a block that is null, not an object or without a name. A
\* block named Edit or Write adds one to editCount whether it has an input
\* object or not; without one, or without a non-empty file_path in it, it
\* leaves editedFiles as it is. The Edit Tracker never throws.
C26_MalformedIgnored ==
  [][ Len(stream') = Len(stream) + 1 =>
        LET m == C26_Taken
            named == IF C26_NotAssistant(m) THEN {}
                     ELSE { j \in 1..Len(m.content) :
                              /\ m.content[j].shape = "object"
                              /\ m.content[j].hasName
                              /\ m.content[j].name \in {"Edit", "Write"} }
        IN  /\ locals'.editCount = locals.editCount + Cardinality(named)
            /\ (\A j \in named :
                   \/ ~m.content[j].inputIsObject
                   \/ ~m.content[j].filePathIsString
                   \/ m.content[j].filePath = "") =>
                 locals'.editedFiles = locals.editedFiles
            /\ pc' = "passThrew" => m.type = "result"
    ]_vars

\* C26 witness: after an array, and an assistant event with a null block and
\* a block without a name, an Edit block without an input object was counted
\* as one edit on no file.
C26_Witness ==
  /\ pc = "pass"
  /\ stream = << ArrayMessage, AssistantEvent(<<NullBlock, NamelessBlock>>),
                 AssistantEvent(<<NoInputBlock("Edit")>>) >>
  /\ locals.editCount = 1 /\ locals.editedFiles = <<>>

\* C27: ALL_CLEAR is reported only on the evidence of the last pass executed:
\* the step that reports it is taken from a state in which the Pass Result of
\* that pass is the one the loop holds and its lastText classifies as
\* all_clear, and the result is the same afterwards; with a status of
\* critical_remaining or unknown another outcome is reported.
C27_AllClearOnEvidence ==
  [][ /\ banners' # banners =>
           /\ InRunRecursive /\ pc = "loop" /\ calls = pass - 1 /\ calls >= 1
           /\ result' = result
           /\ banners' = <<"ALL_CLEAR">> => LastStatus = "all_clear"
           /\ LastStatus \in {"critical_remaining", "unknown"} =>
                banners' \in {<<"STOPPED_NO_EDITS">>, <<"MAX_PASSES_REACHED">>}
      /\ banners = <<"ALL_CLEAR">> => (result' = result /\ LastStatus = "all_clear")
    ]_vars

\* C27 witness: ALL_CLEAR was reported after three passes, the last of which
\* ended its text with the ALL_CLEAR line.
C27_Witness ==
  /\ ReturnedOk /\ calls = 3 /\ banners = <<"ALL_CLEAR">>
  /\ result.lastText = TXT_ALL_CLEAR

\* The smaller of two numbers.
C28_Min(a, b) == IF a <= b THEN a ELSE b

C30_FilesWithinCount ==
  /\ Len(result.editedFiles) <= result.editCount
  /\ \A i, j \in 1..Len(result.editedFiles) :
        result.editedFiles[i] = result.editedFiles[j] => i = j
  /\ \A i \in 1..Len(result.editedFiles) : result.editedFiles[i] # ""
  /\ (InRunRecursive /\ pc = "stream" /\ pass >= 2) =>
        /\ result.editCount > 0
        /\ (lastPrompt = <<"Re-review all source files that were just modified.",
                           CHECK_AND_FIX>>)
             = (result.editedFiles = <<>>)
        /\ result.editedFiles # <<>> =>
             lastPrompt[1] = "Re-review these modified files: "

\* C30 witness: pass 1 counted one edit without a file path, and pass 2 is
\* running on the prompt that names no file.
C30_Witness ==
  /\ InRunRecursive /\ pc = "stream" /\ pass = 2
  /\ result.editCount = 1 /\ result.editedFiles = <<>>
  /\ lastPrompt = <<"Re-review all source files that were just modified.",
                    CHECK_AND_FIX>>

\* The confirmation of the command line succeeded: CONFIRM_BYPASS_PERMISSIONS
\* was 1, stdin was a terminal and the user answered yes (in any case, with
\* white space around it or not) before the question timed out.
C29_Confirmed ==
  /\ confirmed
  /\ env.confirm /\ env.isTTY
  /\ answer.given /\ ~answer.timedOut
  /\ ToLowerCase(Trim(answer.text)) = <<"y","e","s">>

\* C29: on the command line, query() is called with permissionMode
\* bypassPermissions only after the confirmation succeeded; and runAgent
\* called directly with bypassPermissions and without bypassConfirmed throws
\* before any engine call. (A direct caller that passes bypassConfirmed
\* itself is taken at its word.)
C29_BypassGated ==
  /\ (entry = "cli" /\ engineMode = "bypassPermissions") => C29_Confirmed
  /\ (entry = "cli" /\ gateOpts.permissionMode = "bypassPermissions"
        /\ ~C29_Confirmed) => engineCalls = 0
  /\ (entry = "api" /\ engineMode = "bypassPermissions") => gateOpts.bypassConfirmed
  /\ (entry = "api" /\ gateOpts.permissionMode = "bypassPermissions"
        /\ ~gateOpts.bypassConfirmed /\ pc # "gateRunAgent") =>
        /\ pc = "rejected"
        /\ engineCalls = 0 /\ engineMode = "none"
        /\ err = NewError("resolveOptions",
                          IF gateOpts.model \in {"undefined"} \cup VALID_MODELS
                          THEN MSG_REQUIRES_CONFIRMATION ELSE MSG_INVALID_MODEL)

\* C29 witness: the command line run in which the user answered " Yes" to the
\* question called the engine with bypassPermissions.
C29_Witness ==
  /\ entry = "cli" /\ pc = "gateQuery"
  /\ engineMode = "bypassPermissions" /\ engineCalls = 1
  /\ answer = [given |-> TRUE, timedOut |-> FALSE, text |-> <<" ","Y","e","s","\n">>]
  /\ confirmed

=============================================================================
